---- MODULE Spec2Model ----
(***************************************************************************)
(* The streaming tool-calling agent loop of the playground's chat route:   *)
(* the three provider loops (Gemini, Anthropic, OpenAI), the provider      *)
(* adapters, executeToolCall against the AppWorld proxy, the service       *)
(* registry lookup and the SSE stream that carries the loop's events.      *)
(*                                                                         *)
(* JavaScript strings are sequences of chunks (a chunk is a TLA+ string),  *)
(* so "" is <<>> and concatenation is \o.  An optional value is a record   *)
(* [def, val]; undefined is Undefined.                                     *)
(***************************************************************************)
EXTENDS Integers, Sequences, FiniteSets, TLC

VARIABLES
  request,        \* the headers and body fields POST reads
  reply,          \* the Response POST has returned, if any
  observer,       \* the reader of the response stream: connected, gone, cancelled
  stream,         \* the chunks enqueued on the response stream, in order
  env,            \* what the model and the world may answer in this run
  provider,       \* validateProvider's result: which loop runs
  pc,             \* where the generator is suspended
  messages,       \* the loop's provider-native history
  i,              \* the for-loop's iteration index
  inputTokens, outputTokens, thinkingTokens, toolCallCount, completed,
  response,       \* the adapter's result of the current iteration
  idx,            \* position of the for-of loop in response.toolCalls
  results,        \* responseParts (Gemini) / toolResults (Anthropic)
  events,         \* the events the stream's reader loop was handed, in order
  log,            \* every provider invocation, executor call and frame, in order
  nextId,         \* the vendor's tool-call id counter
  suspended,      \* the locals of the other runs in flight, while this one runs
  wire,           \* the bytes of the response body the client has yet to read
  client          \* the playground page: its state and its reader loop

vars == <<request, reply, observer, stream, env, provider, pc, messages, i, inputTokens, outputTokens,
          thinkingTokens, toolCallCount, completed, response, idx, results,
          events, log, nextId, suspended, wire, client>>

\* ------------------------------------------------------------------ bounds
\* maxIterations of the loops (50 in the source), cut down for the check
MaxIterations == 2
\* the largest number of tool calls the model puts in one turn
MaxBatch == 2

\* ------------------------------------------------------- values and strings
Undefined == [def |-> FALSE, val |-> <<>>]
Some(v) == [def |-> TRUE, val |-> v]
\* JavaScript truthiness of an optional string
Truthy(o) == o.def /\ o.val # <<>>

RECURSIVE Concat(_)
Concat(ss) == IF ss = <<>> THEN <<>> ELSE Head(ss) \o Concat(Tail(ss))

\* ---------------------------------------------------------- service registry
CompleteTool == "supervisor_complete_task"
baseTools == <<"supervisor_show_account_passwords", "supervisor_show_profile",
               CompleteTool>>
executePythonTool == "execute_python"
\* two of the registry's nine services, one function each
services == << [name |-> "spotify", functions |-> <<"spotify_login">>],
               [name |-> "venmo", functions |-> <<"venmo_login">>] >>

Range(s) == {s[k] : k \in 1..Len(s)}
NoFunction == "undefined"

RECURSIVE EnabledFrom(_, _)
EnabledFrom(svcs, enabledServices) ==
  IF svcs = <<>> THEN <<>>
  ELSE (IF Head(svcs).name \in enabledServices THEN Head(svcs).functions ELSE <<>>)
       \o EnabledFrom(Tail(svcs), enabledServices)

\* the active tool set declared to the model
getEnabledFunctions(enabledServices) == baseTools \o EnabledFrom(services, enabledServices)

\* getFunctionByName without the not-found result
getFunctionByNameAlwaysFound(name) == name
\* lookup used by executeToolCall: the whole registry, not the active set
getFunctionByName(name) ==
  IF name \in Range(baseTools) THEN name
  ELSE IF name = executePythonTool THEN name
  ELSE IF \E k \in 1..Len(services) : name \in Range(services[k].functions) THEN name
  ELSE NoFunction

\* tool-call arguments: an object, or a nullish value (a Gemini functionCall
\* without args, an OpenAI arguments string "null")
ArgsObject == "{...}"
ArgsNullish == "nullish"

\* fn.toCode(args): the base tools ignore args, every other renderer reads a
\* property of args and so throws a TypeError on a nullish args
toCodeThrows(fn, args) == fn \notin Range(baseTools) /\ args = ArgsNullish
toCode(fn, args) == <<"code of ", fn, args>>

\* --------------------------------------------------------- executeToolCall
\* What the fetch of /api/appworld can come back with.
\*   thrown: fetch rejects (network error); ok: response.ok; status/text: the
\*   failing status and body; parses: response.json() succeeds; error, details,
\*   parsed_output, output: the fields of the parsed body.
FetchThrown == [thrown |-> TRUE, message |-> <<"fetch failed">>, ok |-> FALSE,
                status |-> "0", text |-> <<>>, parses |-> FALSE, error |-> Undefined,
                details |-> Undefined, parsed_output |-> Undefined, output |-> Undefined]
HttpFailure == [FetchThrown EXCEPT !.thrown = FALSE, !.status = "500",
                 !.text = <<"{\"error\":\"AppWorld API error: 500\"}">>]
BadBody == [FetchThrown EXCEPT !.thrown = FALSE, !.ok = TRUE, !.status = "200",
             !.message = <<"Unexpected token < in JSON">>]
ErrorField == [BadBody EXCEPT !.parses = TRUE, !.error = Some(<<"Proxy error">>),
                !.details = Some(<<"socket hang up">>)]
ErrorFieldOnly == [ErrorField EXCEPT !.details = Undefined]
ParsedOutput == [BadBody EXCEPT !.parses = TRUE, !.parsed_output = Some(<<"42">>),
                  !.output = Some(<<"42">>)]
NoOutput == [BadBody EXCEPT !.parses = TRUE]
RawOutput == [BadBody EXCEPT !.parses = TRUE, !.output = Some(<<"done">>)]

FetchFailures == {FetchThrown, HttpFailure, BadBody, ErrorField, ErrorFieldOnly}
FetchSuccesses == {ParsedOutput, NoOutput, RawOutput}
FetchOutcomes == FetchFailures \cup FetchSuccesses

UnknownFunctionResult(name) == <<"Error: Unknown function \"", name, "\"">>

\* the HTTP failure branch returning the bare response text
executeToolCallHttpFailureBare(r) == r.text
\* the string executeToolCall returns once the fetch has come back
executeToolCallHttpFailure(r) == <<"Error: HTTP ", r.status, " - ">> \o r.text
executeToolCallResult(r) ==
  IF r.thrown THEN <<"Error executing tool: ">> \o r.message
  ELSE IF ~r.ok THEN executeToolCallHttpFailure(r)
  ELSE IF ~r.parses THEN <<"Error executing tool: ">> \o r.message
  ELSE IF Truthy(r.error)
    THEN <<"Error: ">> \o r.error.val
         \o (IF Truthy(r.details) THEN <<" - ">> \o r.details.val ELSE <<>>)
  ELSE IF r.parsed_output.def THEN r.parsed_output.val
  ELSE IF Truthy(r.output) THEN r.output.val
  ELSE <<"No output">>

\* ------------------------------------------------------- the model's turns
Providers == {"gemini", "anthropic", "openai"}
UserText == <<"what is my balance">>
AnswerText == <<"You have $42">>

\* A tool call as the model issues it; the vendor gives Anthropic and OpenAI
\* calls an id, Gemini function calls have none (id 0 here).
Call(name, args) == [name |-> name, args |-> args]
CompleteCall == Call(CompleteTool, ArgsObject)
EnabledCall == Call("spotify_login", ArgsObject)
NullishArgsCall == Call("spotify_login", ArgsNullish)
DisabledServiceCall == Call("venmo_login", ArgsObject)
ExecutePythonCall == Call(executePythonTool, ArgsObject)
UnknownCall == Call("no_such_tool", ArgsObject)

\* the vendor's usage metadata of one call
Usage(p, c, t) == [present |-> TRUE, prompt |-> p, candidates |-> c, thoughts |-> t]
PlainUsage == Usage(3, 5, 2)
\* a thinking model's usage: more thought tokens than candidate tokens
ThinkingUsage == Usage(3, 1, 2)

\* a response without usage metadata
NoUsage == [present |-> FALSE, prompt |-> 0, candidates |-> 0, thoughts |-> 0]

\* the sequences over S of length 0..n
SeqsUpTo(S, n) == UNION {[1..k -> S] : k \in 0..n}

\* What the vendor answers to one request: it throws (auth, quota, ...), or it
\* has no candidate/choice, or it carries a turn: an optional text, tool calls
\* and usage metadata.
VendorThrows == [throws |-> TRUE, message |-> <<"429 quota exceeded">>,
                 candidate |-> FALSE, text |-> Undefined, calls |-> <<>>,
                 usage |-> PlainUsage, firstId |-> 0, lead |-> <<>>]
VendorNoCandidate == [VendorThrows EXCEPT !.throws = FALSE]
VendorTurn(text, calls, usage, firstId, lead) ==
  [throws |-> FALSE, message |-> <<>>, candidate |-> TRUE, text |-> text,
   calls |-> calls, usage |-> usage, firstId |-> firstId, lead |-> lead]

\* Parts a thinking Gemini model sends ahead of its answer: its thoughts, a
\* part that is neither text nor function call, and an empty text part.
ThoughtPart == [kind |-> "text", text |-> <<"The user wants a song. ">>, thought |-> TRUE]
CodePart == [kind |-> "executableCode", code |-> <<"print(1)">>]
EmptyTextPart == [kind |-> "text", text |-> <<>>, thought |-> FALSE]
NoLead == <<>>
ThinkingLead == <<ThoughtPart, CodePart, EmptyTextPart>>

\* Gemini: candidate.content.parts, the leading parts, the text part, then one
\* functionCall part per call
GeminiParts(v) ==
  v.lead \o
  (IF v.text.def THEN <<[kind |-> "text", text |-> v.text.val, thought |-> FALSE]>>
                 ELSE <<>>)
  \o [k \in 1..Len(v.calls) |->
        [kind |-> "functionCall", name |-> v.calls[k].name, args |-> v.calls[k].args]]
\* Anthropic: response.content, a text block, then one tool_use block per call
AnthropicContent(v) ==
  (IF v.text.def THEN <<[type |-> "text", text |-> v.text.val]>> ELSE <<>>)
  \o [k \in 1..Len(v.calls) |->
        [type |-> "tool_use", id |-> v.firstId + k, name |-> v.calls[k].name,
         input |-> v.calls[k].args]]
\* OpenAI: choice.message.tool_calls
OpenAIToolCalls(v) ==
  [k \in 1..Len(v.calls) |->
     [id |-> v.firstId + k, name |-> v.calls[k].name, arguments |-> v.calls[k].args]]

\* ------------------------------------------------------ provider adapters
\* An adapter's result: it threw, or the normalized turn.
AdapterThrew(msg) ==
  [threw |-> TRUE, message |-> msg, text |-> Undefined, toolCalls |-> <<>>,
   inputTokens |-> 0, outputTokens |-> 0, thinkingTokens |-> 0, modelParts |-> <<>>]
AdapterTurn(text, toolCalls, inTok, outTok, thinkTok, parts) ==
  [threw |-> FALSE, message |-> <<>>, text |-> text, toolCalls |-> toolCalls,
   inputTokens |-> inTok, outputTokens |-> outTok, thinkingTokens |-> thinkTok,
   modelParts |-> parts]

\* (text || "") + part.text over the parts that pass the test, undefined when
\* no part does
RECURSIVE JoinText(_, _)
JoinText(texts, acc) ==
  IF texts = <<>> THEN acc
  ELSE JoinText(Tail(texts), Some((IF acc.def THEN acc.val ELSE <<>>) \o Head(texts)))

\* outputTokens as the raw candidate count, thinking included
GeminiOutputTokensRaw(candidateTokens, thoughtsTokens) == candidateTokens
\* outputTokens: candidateTokens - thoughtsTokens
GeminiOutputTokens(candidateTokens, thoughtsTokens) == candidateTokens - thoughtsTokens
IsShownGeminiText(part) == part.kind = "text" /\ part.text # <<>> /\ ~part.thought
IsGeminiFunctionCall(part) == part.kind = "functionCall"
callGemini(v) ==
  IF v.throws THEN AdapterThrew(v.message)
  ELSE IF ~v.candidate THEN AdapterThrew(<<"No response candidate from Gemini">>)
  ELSE LET parts == GeminiParts(v)
           shown == SelectSeq(parts, IsShownGeminiText)
           fcs == SelectSeq(parts, IsGeminiFunctionCall)
           promptTokens == IF v.usage.present THEN v.usage.prompt ELSE 0
           candidateTokens == IF v.usage.present THEN v.usage.candidates ELSE 0
           thoughtsTokens == IF v.usage.present THEN v.usage.thoughts ELSE 0
       IN AdapterTurn(JoinText([k \in 1..Len(shown) |-> shown[k].text], Undefined),
                      [k \in 1..Len(fcs) |->
                         [id |-> 0, name |-> fcs[k].name, args |-> fcs[k].args]],
                      promptTokens, GeminiOutputTokens(candidateTokens, thoughtsTokens),
                      thoughtsTokens,
                      parts)

\* an adapter that takes no block for text
IsAnthropicTextNever(block) == FALSE
IsAnthropicText(block) == block.type = "text"
IsAnthropicToolUse(block) == block.type = "tool_use"
callAnthropic(v) ==
  IF v.throws THEN AdapterThrew(v.message)
  ELSE IF ~v.usage.present
    THEN AdapterThrew(<<"Cannot read properties of undefined (reading 'input_tokens')">>)
  ELSE LET content == IF v.candidate THEN AnthropicContent(v) ELSE <<>>
           texts == SelectSeq(content, IsAnthropicText)
           uses == SelectSeq(content, IsAnthropicToolUse)
       IN AdapterTurn(JoinText([k \in 1..Len(texts) |-> texts[k].text], Undefined),
                      [k \in 1..Len(uses) |->
                         [id |-> uses[k].id, name |-> uses[k].name, args |-> uses[k].input]],
                      v.usage.prompt, v.usage.candidates, 0, <<>>)

callOpenAI(v) ==
  IF v.throws THEN AdapterThrew(v.message)
  ELSE IF ~v.candidate THEN AdapterThrew(<<"No response choice from OpenAI">>)
  ELSE LET tcs == OpenAIToolCalls(v)
       IN AdapterTurn(IF Truthy(v.text) THEN v.text ELSE Undefined,
                      [k \in 1..Len(tcs) |->
                         [id |-> tcs[k].id, name |-> tcs[k].name, args |-> tcs[k].arguments]],
                      IF v.usage.present THEN v.usage.prompt ELSE 0,
                      IF v.usage.present THEN v.usage.candidates ELSE 0, 0, <<>>)

callProvider(p, v) ==
  IF p = "gemini" THEN callGemini(v)
  ELSE IF p = "anthropic" THEN callAnthropic(v)
  ELSE callOpenAI(v)

\* ----------------------------------------------------------- environments
\* What the model and the world may do in a run: the texts and tool calls a
\* turn is drawn from, the outcomes of a fetch, and the usage metadata the
\* vendor reports.
Environment(texts, calls, fetches, usages, leads) ==
  [texts |-> texts, calls |-> calls, fetches |-> fetches, usages |-> usages,
   leads |-> leads]
LoopEnv == Environment({Undefined, Some(AnswerText)},
                       {CompleteCall, EnabledCall, NullishArgsCall, UnknownCall},
                       {ParsedOutput, FetchThrown}, {PlainUsage}, {NoLead})
RegistryEnv == Environment({Undefined},
                           {EnabledCall, DisabledServiceCall, ExecutePythonCall, UnknownCall},
                           {ParsedOutput, ErrorField}, {PlainUsage}, {NoLead})
ExecutorEnv == Environment({Undefined}, {EnabledCall, CompleteCall}, FetchOutcomes,
                           {PlainUsage}, {NoLead})
TextEnv == Environment({Undefined, Some(<<>>), Some(AnswerText)}, {EnabledCall},
                       {RawOutput}, {PlainUsage, ThinkingUsage, NoUsage},
                       {NoLead, ThinkingLead})
Environments == {LoopEnv, RegistryEnv, ExecutorEnv, TextEnv}

\* Anthropic's tool_use input is always an object
CallsOf(e, p) == IF p = "anthropic" THEN e.calls \ {NullishArgsCall} ELSE e.calls
\* only Gemini's candidates carry thought parts
LeadsOf(e, p) == IF p = "gemini" THEN e.leads ELSE {NoLead}
VendorAnswers(e, p, firstId) ==
  {VendorThrows, VendorNoCandidate}
  \cup {VendorTurn(t, cs, u, firstId, l) :
          t \in e.texts, cs \in SeqsUpTo(CallsOf(e, p), MaxBatch), u \in e.usages,
          l \in LeadsOf(e, p)}

\* the concatenation of a sequence of sequences
RECURSIVE Flatten(_)
Flatten(ss) == IF ss = <<>> THEN <<>> ELSE Head(ss) \o Flatten(Tail(ss))

\* ------------------------------------------------------------ the request
ApiKey == "sk-key"
TaskId == "task-1"
SessionCookie == "GAESA=abc"
\* a header that is absent (headers.get gives null) or a body field that is
\* missing or empty: falsy either way
Missing == ""
\* the values of x-model-provider: absent, the three providers, another name
ProviderHeaders == {Missing, "gemini", "anthropic", "openai", "mistral"}
\* ChatRequest.messages: a message of the caller's history, its toolCalls and
\* toolResults optional, as are their ids
HistoryCall(id, name, args) == [id |-> id, name |-> name, args |-> args]
HistoryResult(id, name, result) == [id |-> id, name |-> name, result |-> result]
UserMessage(content) ==
  [role |-> "user", content |-> content, toolCalls |-> Undefined,
   toolResults |-> Undefined]
AssistantMessage(content, toolCalls, toolResults) ==
  [role |-> "assistant", content |-> content, toolCalls |-> toolCalls,
   toolResults |-> toolResults]
\* a first request: the user's instruction
FreshHistory == <<UserMessage(UserText)>>
\* a continuation: an earlier assistant turn with two calls and their
\* results, none with an id, then the user's reply
IdLessHistory ==
  <<UserMessage(UserText),
    AssistantMessage(<<>>,
                     Some(<<HistoryCall(Undefined, "spotify_login", ArgsObject),
                            HistoryCall(Undefined, "venmo_login", ArgsObject)>>),
                     Some(<<HistoryResult(Undefined, "spotify_login", <<"token-1">>),
                            HistoryResult(Undefined, "venmo_login", <<"token-2">>)>>)),
    UserMessage(<<"Go on.">>)>>
Histories == {FreshHistory, IdLessHistory}
\* The x-enabled-services header as POST reads it: absent (headers.get gives
\* null), or a string, which is a sequence of pieces of text here: a word, a
\* comma, a blank.
SpotifyHeader == Some(<<"spotify">>)
HeaderTokens == {"spotify", "venmo", "calendar", ",", " "}
MaxHeaderLen == 3
EnabledServicesHeaders == {Undefined} \cup {Some(h) : h \in SeqsUpTo(HeaderTokens, MaxHeaderLen)}
\* the list POST falls back to: the names of all the services
DefaultEnabled == [k \in 1..Len(services) |-> <<services[k].name>>]
\* header.split(","): the pieces between the commas, cur the piece being read
RECURSIVE SplitComma(_, _)
SplitComma(text, cur) ==
  IF text = <<>> THEN <<cur>>
  ELSE IF Head(text) = "," THEN <<cur>> \o SplitComma(Tail(text), <<>>)
  ELSE SplitComma(Tail(text), Append(cur, Head(text)))
\* s.trim()
RECURSIVE TrimStart(_)
TrimStart(piece) ==
  IF piece # <<>> /\ Head(piece) = " " THEN TrimStart(Tail(piece)) ELSE piece
RECURSIVE TrimEnd(_)
TrimEnd(piece) ==
  IF piece # <<>> /\ piece[Len(piece)] = " "
    THEN TrimEnd(SubSeq(piece, 1, Len(piece) - 1)) ELSE piece
Trim(piece) == TrimEnd(TrimStart(piece))
\* enabledServicesHeader ? enabledServicesHeader.split(",").map(s => s.trim())
\*                       : [all the services]
ParseEnabledServices(header) ==
  IF Truthy(header)
    THEN LET pieces == SplitComma(header.val, <<>>)
         IN [k \in 1..Len(pieces) |-> Trim(pieces[k])]
  ELSE DefaultEnabled
\* enabledServices.includes(service.name), for each service: the names of
\* the registry the list holds
IncludedNames(enabledServices) ==
  {services[k].name : k \in {n \in 1..Len(services) :
                               <<services[n].name>> \in Range(enabledServices)}}
\* the functions POST hands to the provider adapter
DeclaredFunctions(req) ==
  getEnabledFunctions(IncludedNames(ParseEnabledServices(req.enabledServices)))
\* another world session
OtherTaskId == "task-2"
Requests ==
  [apiKey : {Missing, ApiKey}, providerHeader : ProviderHeaders,
   taskId : {Missing, TaskId, OtherTaskId}, cookie : {Missing, SessionCookie},
   history : Histories, enabledServices : {SpotifyHeader}]
validateProvider(providerHeader) ==
  IF providerHeader \in {"gemini", "anthropic", "openai"} THEN providerHeader
  ELSE "gemini"
\* the session check without the cookie
HasSessionTaskOnly(req) == req.taskId # Missing
\* if (!taskId || !cookie): the request names an initialized world
HasSession(req) == req.taskId # Missing /\ req.cookie # Missing
\* the responses POST returns
NoReply == [kind |-> "none", status |-> 0, error |-> <<>>]
ResponseJson(status, error) == [kind |-> "json", status |-> status, error |-> error]
StreamResponse == [kind |-> "stream", status |-> 200, error |-> <<>>]
MissingKeyResponse == ResponseJson(400, <<"Missing x-api-key header">>)
MissingSessionResponse ==
  ResponseJson(400, <<"Missing taskId or cookie. Initialize the world state first.">>)
\* formatSSE that leaves the event's JSON out of the chunk
formatSSEEmpty(event) == <<"data: ", "\n\n">>
\* formatSSE: data: ${JSON.stringify(event)}\n\n
formatSSE(event) == <<"data: ", [json |-> event], "\n\n">>
\* the x-enabled-services header of the run
EnabledServices == {"spotify"}

\* --------------------------------------------------- history construction
createFunctionResponsePart(name, result) ==
  [kind |-> "functionResponse", name |-> name, response |-> result]
\* createModelMessageFromParts that keeps only the parts shown to the user or
\* executed
createModelMessageFromShownParts(parts) ==
  [role |-> "model",
   parts |-> SelectSeq(parts, LAMBDA part : IsShownGeminiText(part)
                                            \/ IsGeminiFunctionCall(part))]
createModelMessageFromParts(parts) == [role |-> "model", parts |-> parts]
\* createToolResultContent that loses the call's id
createToolResultContentNoId(toolCallId, result) ==
  [type |-> "tool_result", tool_use_id |-> 0, content |-> result]
createToolResultContent(toolCallId, result) ==
  [type |-> "tool_result", tool_use_id |-> toolCallId, content |-> result]
createAssistantContent(text, toolCalls) ==
  (IF Truthy(text) THEN <<[type |-> "text", text |-> text.val]>> ELSE <<>>)
  \o [k \in 1..Len(toolCalls) |->
        [type |-> "tool_use", id |-> toolCalls[k].id, name |-> toolCalls[k].name,
         input |-> toolCalls[k].args]]
createAssistantMessage(text, toolCalls) ==
  [role |-> "assistant", content |-> IF Truthy(text) THEN text ELSE Undefined,
   tool_calls |-> [k \in 1..Len(toolCalls) |->
                     [id |-> toolCalls[k].id, name |-> toolCalls[k].name,
                      arguments |-> toolCalls[k].args]]]
createToolResultMessage(toolCallId, result) ==
  [role |-> "tool", tool_call_id |-> toolCallId, content |-> result]

\* the message(s) a loop pushes before it walks the batch
AssistantPush(p, r) ==
  IF p = "anthropic"
    THEN <<[role |-> "assistant", content |-> createAssistantContent(r.text, r.toolCalls)]>>
  ELSE IF p = "openai" THEN <<createAssistantMessage(r.text, r.toolCalls)>>
  ELSE <<>>
\* what a loop keeps of one call's result until the batch ends
ResultPart(p, tc, result) ==
  IF p = "gemini" THEN <<createFunctionResponsePart(tc.name, result)>>
  ELSE IF p = "anthropic" THEN <<createToolResultContent(tc.id, result)>>
  ELSE <<>>
\* the message a loop pushes right after one call's result
ResultPush(p, tc, result) ==
  IF p = "openai" THEN <<createToolResultMessage(tc.id, result)>> ELSE <<>>
\* BatchPush of a Gemini loop that does not recirculate the model's parts
BatchPushResultsOnly(p, r, parts) ==
  IF p = "gemini" THEN <<[role |-> "user", parts |-> parts]>>
  ELSE IF p = "anthropic" THEN <<[role |-> "user", content |-> parts]>>
  ELSE <<>>
\* the messages a loop pushes after the batch
BatchPush(p, r, parts) ==
  IF p = "gemini"
    THEN (IF Len(r.modelParts) > 0 THEN <<createModelMessageFromParts(r.modelParts)>>
                                   ELSE <<>>)
         \o <<[role |-> "user", parts |-> parts]>>
  ELSE IF p = "anthropic" THEN <<[role |-> "user", content |-> parts]>>
  ELSE <<>>

\* -------------------------------------------------- history conversion
\* the ids of the provider's calls are positive, 0 - (idx + 1) is the default
\* id `tool_${idx}` or `call_${idx}` of the history conversion
DefaultId(n) == 0 - (n + 1)
\* tc.id || `tool_${idx}`
IdOr(id, n) == IF Truthy(id) THEN id.val ELSE DefaultId(n)
\* msg.toolCalls.map((tc, idx) => ({ id: tc.id || `tool_${idx}`, ... }))
ConvertedCalls(toolCalls) ==
  [k \in 1..Len(toolCalls) |->
     [id |-> IdOr(toolCalls[k].id, k - 1), name |-> toolCalls[k].name,
      args |-> toolCalls[k].args]]
TextPart(text) == [kind |-> "text", text |-> text, thought |-> FALSE]
createFunctionCallPart(name, args) == [kind |-> "functionCall", name |-> name, args |-> args]
createTextContent(text) == [type |-> "text", text |-> text]
\* POST's conversion of one message of the caller's history, per provider
ConvertMessage(p, msg) ==
  LET turn ==
        IF msg.role = "user"
          THEN IF p = "gemini"
                 THEN <<[role |-> "user", parts |-> <<TextPart(msg.content)>>]>>
               ELSE IF p = "anthropic"
                 THEN <<[role |-> "user", content |-> <<createTextContent(msg.content)>>]>>
               ELSE <<[role |-> "user", content |-> Some(msg.content)]>>
        ELSE IF msg.role = "assistant"
          THEN IF msg.toolCalls.def
                 THEN IF p = "gemini"
                        THEN <<[role |-> "model",
                                parts |-> [k \in 1..Len(msg.toolCalls.val) |->
                                             createFunctionCallPart(
                                               msg.toolCalls.val[k].name,
                                               msg.toolCalls.val[k].args)]]>>
                      ELSE IF p = "anthropic"
                        THEN <<[role |-> "assistant",
                                content |-> createAssistantContent(
                                              Some(msg.content),
                                              ConvertedCalls(msg.toolCalls.val))]>>
                      ELSE <<createAssistantMessage(Some(msg.content),
                                                    ConvertedCalls(msg.toolCalls.val))>>
               ELSE IF p = "gemini"
                 THEN <<[role |-> "model", parts |-> <<TextPart(msg.content)>>]>>
               ELSE IF p = "anthropic"
                 THEN <<[role |-> "assistant", content |-> msg.content]>>
               ELSE <<[role |-> "assistant", content |-> Some(msg.content)]>>
        ELSE <<>>
      toolResults ==
        IF ~msg.toolResults.def THEN <<>>
        ELSE IF p = "gemini"
          THEN <<[role |-> "user",
                  parts |-> [k \in 1..Len(msg.toolResults.val) |->
                               createFunctionResponsePart(msg.toolResults.val[k].name,
                                                          msg.toolResults.val[k].result)]]>>
        ELSE IF p = "anthropic"
          THEN <<[role |-> "user",
                  content |-> [k \in 1..Len(msg.toolResults.val) |->
                                 createToolResultContent(
                                   IdOr(msg.toolResults.val[k].id, 0),
                                   msg.toolResults.val[k].result)]]>>
        ELSE [k \in 1..Len(msg.toolResults.val) |->
                createToolResultMessage(IdOr(msg.toolResults.val[k].id, 0),
                                        msg.toolResults.val[k].result)]
  IN turn \o toolResults
\* POST's conversion of the caller's history, per provider
ConvertHistory(p, history) ==
  Flatten([k \in 1..Len(history) |-> ConvertMessage(p, history[k])])
\* the provider-native history of a first request
InitialMessages(p) == ConvertHistory(p, FreshHistory)

\* ----------------------------------------------------------------- events
TokensEvent(inTok, outTok, thinkTok, count) ==
  [type |-> "tokens", inputTokens |-> inTok, outputTokens |-> outTok,
   thinkingTokens |-> thinkTok, toolCallCount |-> count]
TextEvent(text) == [type |-> "trace", entry |-> [type |-> "text", content |-> text]]
ToolCallEvent(tc) ==
  [type |-> "trace",
   entry |-> [type |-> "tool_call", content |-> <<tc.name, "(", tc.args, ")">>,
              name |-> tc.name, args |-> tc.args]]
ToolResultEvent(tc, result) ==
  [type |-> "trace",
   entry |-> [type |-> "tool_result", content |-> result, name |-> tc.name]]
DoneEvent(c, n) == [type |-> "done", completed |-> c, needsUserInput |-> n]
\* ErrorEvent without the thrown error's message
ErrorEventUnknown(message) ==
  [type |-> "error", error |-> <<"Agent error">>, details |-> <<"Unknown error">>]
\* the frame POST's catch block enqueues
ErrorEvent(message) == [type |-> "error", error |-> <<"Agent error">>, details |-> message]

\* log entries
Frame(ev) == [kind |-> "frame", event |-> ev]
ProviderInvocation(iter, msgs, functions) ==
  [kind |-> "provider", iteration |-> iter, messages |-> msgs, functions |-> functions]
\* the vendor's turn a provider call came back with
ReturnedTurn(v) ==
  [kind |-> "turn", text |-> v.text,
   names |-> [k \in 1..Len(v.calls) |-> v.calls[k].name], vendor |-> v]
\* the vendor's answer a provider call failed on
FailedCall(v) == [kind |-> "failure", vendor |-> v]
\* the fetch of executeToolCall with the session of the first world
ExecutorCallFirstSession(tc, code) ==
  [kind |-> "exec", name |-> tc.name, code |-> code, task_id |-> TaskId,
   cookie |-> SessionCookie, id |-> tc.id]
ExecutorCall(tc, code) ==
  [kind |-> "exec", name |-> tc.name, code |-> code, task_id |-> request.taskId,
   cookie |-> request.cookie, id |-> tc.id]
ExecutorReturn(tc, r) == [kind |-> "exec_return", name |-> tc.name, outcome |-> r]
Frames(evs) == [k \in 1..Len(evs) |-> Frame(evs[k])]

\* --------------------------------------------------- the loop's decisions
\* the text event ahead of the turn's tokens event
TurnFramesTextFirst(tokens, text) == text \o <<tokens>>
\* what a loop yields when the provider call has returned: the tokens event,
\* then the text event if there is text
TurnFrames(tokens, text) == <<tokens>> \o text
\* needsUserInput as response.text !== undefined
needsUserInputIfDefined(r) == r.text.def
\* needsUserInput of the done frame on the no-tool-call branch: !!response.text
needsUserInput(r) == Truthy(r.text)
\* PcAfterTurn without the return of the no-tool-call branch
PcAfterTurnNoReturn(r) == "toolLoop"
\* where the generator goes after the turn's frames: it returns after the
\* done frame when there are no tool calls, else it walks the batch
PcAfterTurn(r) == IF Len(r.toolCalls) = 0 THEN "closed" ELSE "toolLoop"
\* the for statement: i++, then i < maxIterations
LoopGoesOn(iter) == iter + 1 < MaxIterations
\* a loop that goes on after a batch with the completion tool
BreaksOnCompletedNever(c) == FALSE
\* if (completed) break, after the batch's results are pushed
BreaksOnCompleted(c) == c
\* FinalFrames without the done frame after the loop
FinalFramesNone(c) == <<>>
\* the done frame after the loop
FinalFrames(c) == <<DoneEvent(c, FALSE)>>
\* CallThenExecute with the fetch issued before the frames
ExecuteThenCall(frames, exec) == <<exec>> \o frames
\* the order of one pass up to the fetch: the frames, then the executor call
CallThenExecute(frames, exec) == frames \o <<exec>>

\* the for-of loop taken from the last call to the first
CallAtReversed(toolCalls, k) == toolCalls[Len(toolCalls) + 1 - k]
\* for (const tc of response.toolCalls): the k-th call the loop visits
CallAt(toolCalls, k) == toolCalls[k]

\* ------------------------------------------------------------------- Init
NoResponse == AdapterTurn(Undefined, <<>>, 0, 0, 0, <<>>)
\* no page is reading the response
NoClient == [phase |-> "none"]

\* POST has accepted the request, converted the history and started the
\* generator, which is suspended in its first provider call.
Init ==
  /\ env \in Environments
  /\ provider \in Providers
  /\ request = [apiKey |-> ApiKey, providerHeader |-> provider, taskId |-> TaskId,
                cookie |-> SessionCookie, history |-> FreshHistory,
                enabledServices |-> SpotifyHeader]
  /\ reply = StreamResponse
  /\ observer = "connected"
  /\ stream = <<>>
  /\ pc = "awaitProvider"
  /\ messages = InitialMessages(provider)
  /\ i = 0
  /\ inputTokens = 0 /\ outputTokens = 0 /\ thinkingTokens = 0
  /\ toolCallCount = 0
  /\ completed = FALSE
  /\ response = NoResponse
  /\ idx = 1
  /\ results = <<>>
  /\ events = <<>>
  /\ log = <<ProviderInvocation(0, InitialMessages(provider), DeclaredFunctions(request))>>
  /\ nextId = 0
  /\ suspended = <<>>
  /\ wire = <<>>
  /\ client = NoClient

\* controller.enqueue(encoder.encode(formatSSE(event))) for each event handed
\* to the reader loop
Chunks(evs) == [k \in 1..Len(evs) |-> formatSSE(evs[k])]
\* the generator yields evs, in order, and the reader loop enqueues them
Enqueue(evs) ==
  /\ events' = events \o evs
  /\ stream' = stream \o Chunks(evs)
  /\ log' = log \o Frames(evs)

\* ---------------------------------------------------------------- actions
\* The provider call throws (the vendor call fails, or there is no
\* candidate/choice): the generator throws, POST's catch enqueues an error
\* frame and closes the stream.
ProviderThrows ==
  /\ pc = "awaitProvider"
  /\ observer # "cancelled"
  /\ \E v \in VendorAnswers(env, provider, nextId) :
       LET r == callProvider(provider, v) IN
         /\ r.threw
         /\ events' = Append(events, ErrorEvent(r.message))
         /\ stream' = Append(stream, formatSSE(ErrorEvent(r.message)))
         /\ log' = log \o <<FailedCall(v), Frame(ErrorEvent(r.message))>>
  /\ pc' = "closed"
  /\ UNCHANGED <<suspended, wire, client, request, reply, observer, env, provider, messages, i, inputTokens, outputTokens,
                 thinkingTokens, toolCallCount, completed, response, idx,
                 results, nextId>>

\* The provider call returns a turn: totals, the tokens frame, the text frame,
\* and either the done frame (no tool calls) or the start of the batch.
ProviderReturns ==
  /\ pc = "awaitProvider"
  /\ observer # "cancelled"
  /\ \E v \in VendorAnswers(env, provider, nextId) :
       LET r == callProvider(provider, v)
           inTok == inputTokens + r.inputTokens
           outTok == outputTokens + r.outputTokens
           thinkTok == thinkingTokens + r.thinkingTokens
           head == TurnFrames(TokensEvent(inTok, outTok, thinkTok, toolCallCount),
                              IF Truthy(r.text) THEN <<TextEvent(r.text.val)>> ELSE <<>>)
       IN
         /\ ~r.threw
         /\ inputTokens' = inTok
         /\ outputTokens' = outTok
         /\ thinkingTokens' = thinkTok
         /\ response' = r
         /\ nextId' = nextId + Len(r.toolCalls)
         /\ pc' = PcAfterTurn(r)
         /\ IF Len(r.toolCalls) = 0
              THEN /\ events' = events \o head \o <<DoneEvent(completed, needsUserInput(r))>>
                   /\ stream' = stream \o Chunks(head \o <<DoneEvent(completed,
                                                                    needsUserInput(r))>>)
                   /\ log' = log \o <<ReturnedTurn(v)>>
                             \o Frames(head \o <<DoneEvent(completed, needsUserInput(r))>>)
                   /\ UNCHANGED messages
              ELSE /\ events' = events \o head
                   /\ stream' = stream \o Chunks(head)
                   /\ log' = log \o <<ReturnedTurn(v)>> \o Frames(head)
                   /\ messages' = messages \o AssistantPush(provider, r)
  /\ idx' = 1
  /\ results' = <<>>
  /\ UNCHANGED <<suspended, wire, client, request, reply, observer, env, provider, i, toolCallCount, completed>>

\* One pass of the for-of loop up to the fetch of executeToolCall: count the
\* call, enqueue tool_call and tokens, note a completion call, resolve and
\* render the tool.
BeginToolCall ==
  /\ pc = "toolLoop"
  /\ idx <= Len(response.toolCalls)
  /\ LET tc == CallAt(response.toolCalls, idx)
         fn == getFunctionByName(tc.name)
         head == <<ToolCallEvent(tc),
                   TokensEvent(inputTokens, outputTokens, thinkingTokens,
                               toolCallCount + 1)>>
     IN
       /\ toolCallCount' = toolCallCount + 1
       /\ completed' = (completed \/ tc.name = CompleteTool)
       /\ \/ /\ fn = NoFunction
             /\ Enqueue(head \o <<ToolResultEvent(tc, UnknownFunctionResult(tc.name))>>)
             /\ results' = results \o ResultPart(provider, tc, UnknownFunctionResult(tc.name))
             /\ messages' = messages \o ResultPush(provider, tc, UnknownFunctionResult(tc.name))
             /\ idx' = idx + 1
             /\ pc' = "toolLoop"
          \/ /\ fn # NoFunction
             /\ toCodeThrows(fn, tc.args)
             /\ Enqueue(head \o <<ErrorEvent(<<"Cannot read properties of undefined">>)>>)
             /\ pc' = "closed"
             /\ UNCHANGED <<results, messages, idx>>
          \/ /\ fn # NoFunction
             /\ ~toCodeThrows(fn, tc.args)
             /\ events' = events \o head
             /\ stream' = stream \o Chunks(head)
             /\ log' = log \o CallThenExecute(Frames(head),
                                              ExecutorCall(tc, toCode(fn, tc.args)))
             /\ pc' = "awaitTool"
             /\ UNCHANGED <<results, messages, idx>>
  /\ UNCHANGED <<suspended, wire, client, request, reply, observer, env, provider, i, inputTokens, outputTokens, thinkingTokens,
                 response, nextId>>

\* The fetch of executeToolCall comes back: the result string, the
\* tool_result frame, the result kept for the history.
ToolReturns ==
  /\ pc = "awaitTool"
  /\ observer # "cancelled"
  /\ \E r \in env.fetches :
       LET tc == CallAt(response.toolCalls, idx)
           result == executeToolCallResult(r)
       IN
         /\ events' = events \o <<ToolResultEvent(tc, result)>>
         /\ stream' = Append(stream, formatSSE(ToolResultEvent(tc, result)))
         /\ log' = log \o <<ExecutorReturn(tc, r), Frame(ToolResultEvent(tc, result))>>
         /\ results' = results \o ResultPart(provider, tc, result)
         /\ messages' = messages \o ResultPush(provider, tc, result)
  /\ idx' = idx + 1
  /\ pc' = "toolLoop"
  /\ UNCHANGED <<suspended, wire, client, request, reply, observer, env, provider, i, inputTokens, outputTokens, thinkingTokens,
                 toolCallCount, completed, response, nextId>>

\* The batch is done: push its results, then break on completed, or start
\* the next iteration, or leave the loop at maxIterations.
EndBatch ==
  /\ pc = "toolLoop"
  /\ idx > Len(response.toolCalls)
  /\ LET pushed == messages \o BatchPush(provider, response, results) IN
       /\ messages' = pushed
       /\ IF BreaksOnCompleted(completed)
            THEN /\ Enqueue(FinalFrames(completed))
                 /\ pc' = "closed"
                 /\ i' = i
            ELSE IF LoopGoesOn(i)
            THEN /\ events' = events
                 /\ stream' = stream
                 /\ log' = Append(log, ProviderInvocation(i + 1, pushed,
                                                          DeclaredFunctions(request)))
                 /\ pc' = "awaitProvider"
                 /\ i' = i + 1
            ELSE /\ Enqueue(FinalFrames(completed))
                 /\ pc' = "closed"
                 /\ i' = i + 1
  /\ UNCHANGED <<suspended, wire, client, request, reply, observer, env, provider, inputTokens, outputTokens, thinkingTokens,
                 toolCallCount, completed, response, idx, results, nextId>>

Next == ProviderThrows \/ ProviderReturns \/ BeginToolCall \/ ToolReturns \/ EndBatch

Spec == Init /\ [][Next]_vars

\* every provider call and every tool execution eventually comes back, and
\* the generator runs whenever it can
FairSpec == Spec /\ WF_vars(Next)

\* ------------------------------------------------- POST, from the request
\* A request has arrived and POST has not run yet.
\* the requests explored per environment: continuations and the second
\* session run in the smallest one
Explored(e, req) ==
  (req.history # FreshHistory \/ req.taskId = OtherTaskId) => e = TextEnv
PostInit ==
  /\ env \in Environments
  /\ request \in Requests
  /\ Explored(env, request)
  /\ reply = NoReply
  /\ observer = "connected"
  /\ stream = <<>>
  /\ provider = "none"
  /\ pc = "request"
  /\ messages = <<>>
  /\ i = 0
  /\ inputTokens = 0 /\ outputTokens = 0 /\ thinkingTokens = 0
  /\ toolCallCount = 0
  /\ completed = FALSE
  /\ response = NoResponse
  /\ idx = 1
  /\ results = <<>>
  /\ events = <<>>
  /\ log = <<>>
  /\ nextId = 0
  /\ suspended = <<>>
  /\ wire = <<>>
  /\ client = NoClient

\* POST returns a 400 JSON response: no x-api-key, or no taskId or cookie in
\* the body.
PostRejects ==
  /\ pc = "request"
  /\ request.apiKey = Missing \/ ~HasSession(request)
  /\ reply' = IF request.apiKey = Missing THEN MissingKeyResponse
              ELSE MissingSessionResponse
  /\ pc' = "rejected"
  /\ UNCHANGED <<suspended, wire, client, request, observer, stream, env, provider, messages, i, inputTokens,
                 outputTokens, thinkingTokens, toolCallCount, completed, response,
                 idx, results, events, log, nextId>>

\* POST validates, picks the provider, converts the history, returns the
\* streaming Response; the stream's start() runs the loop up to its first
\* provider call.
PostOpensStream ==
  /\ pc = "request"
  /\ request.apiKey # Missing
  /\ HasSession(request)
  /\ provider' = validateProvider(request.providerHeader)
  /\ reply' = StreamResponse
  /\ messages' = ConvertHistory(provider', request.history)
  /\ log' = <<ProviderInvocation(0, ConvertHistory(provider', request.history),
                                 DeclaredFunctions(request))>>
  /\ pc' = "awaitProvider"
  /\ UNCHANGED <<suspended, wire, client, request, observer, stream, env, i, inputTokens, outputTokens,
                 thinkingTokens, toolCallCount, completed, response, idx, results,
                 events, nextId>>

PostNext ==
  \/ PostRejects \/ PostOpensStream
  \/ ProviderThrows \/ ProviderReturns \/ BeginToolCall \/ ToolReturns \/ EndBatch

PostSpec == PostInit /\ [][PostNext]_vars

\* the requests of one caller with every x-enabled-services header, and a
\* model that calls the completion tool and a tool of the second service
ToolsEnv == Environment({Undefined}, {CompleteCall, DisabledServiceCall}, {ParsedOutput},
                        {PlainUsage}, {NoLead})
ToolsInit ==
  /\ env = ToolsEnv
  /\ \E key \in {Missing, ApiKey}, header \in EnabledServicesHeaders :
       request = [apiKey |-> key, providerHeader |-> "gemini", taskId |-> TaskId,
                  cookie |-> SessionCookie, history |-> FreshHistory,
                  enabledServices |-> header]
  /\ reply = NoReply
  /\ observer = "connected"
  /\ stream = <<>>
  /\ provider = "none"
  /\ pc = "request"
  /\ messages = <<>>
  /\ i = 0
  /\ inputTokens = 0 /\ outputTokens = 0 /\ thinkingTokens = 0
  /\ toolCallCount = 0
  /\ completed = FALSE
  /\ response = NoResponse
  /\ idx = 1
  /\ results = <<>>
  /\ events = <<>>
  /\ log = <<>>
  /\ nextId = 0
  /\ suspended = <<>>
  /\ wire = <<>>
  /\ client = NoClient
ToolsSpec == ToolsInit /\ [][PostNext]_vars

\* ------------------------------------------------------- cancellation
\* The reader goes away while a provider call or a tool execution is in
\* flight (page.tsx aborts its fetch).  The route reads no abort signal and
\* gives its ReadableStream no cancel(): what the loop sees is left to the
\* runtime, which either cancels the stream (a later enqueue throws) or
\* does not (enqueue goes on succeeding, nobody reads).
CancelOutcomes == {"cancelled", "gone"}
Cancellation == [kind |-> "cancel"]
EnqueueThrew == [kind |-> "enqueue_threw"]

ObserverCancels ==
  /\ pc \in {"awaitProvider", "awaitTool"}
  /\ observer = "connected"
  /\ observer' \in CancelOutcomes
  /\ log' = Append(log, Cancellation)
  /\ UNCHANGED <<suspended, wire, client, request, reply, stream, env, provider, pc, messages, i, inputTokens,
                 outputTokens, thinkingTokens, toolCallCount, completed, response,
                 idx, results, events, nextId>>

\* The provider call comes back to a cancelled stream: the first enqueue (of
\* the tokens frame, or of the error frame in POST's catch) throws, the
\* enqueue of the catch block throws too, start() rejects and the generator
\* is returned.
ProviderReturnsCancelled ==
  /\ pc = "awaitProvider"
  /\ observer = "cancelled"
  /\ \E v \in VendorAnswers(env, provider, nextId) :
       LET r == callProvider(provider, v) IN
         /\ inputTokens' = inputTokens + r.inputTokens
         /\ outputTokens' = outputTokens + r.outputTokens
         /\ thinkingTokens' = thinkingTokens + r.thinkingTokens
         /\ response' = IF r.threw THEN response ELSE r
         /\ log' = log \o <<IF r.threw THEN FailedCall(v) ELSE ReturnedTurn(v),
                             EnqueueThrew>>
  /\ pc' = "abandoned"
  /\ UNCHANGED <<suspended, wire, client, request, reply, observer, stream, env, provider, messages, i,
                 toolCallCount, completed, idx, results, events, nextId>>

\* The tool execution comes back to a cancelled stream: the enqueue of the
\* tool_result frame throws, and so does the one of the catch block.
ToolReturnsCancelled ==
  /\ pc = "awaitTool"
  /\ observer = "cancelled"
  /\ \E r \in env.fetches :
       log' = log \o <<ExecutorReturn(CallAt(response.toolCalls, idx), r), EnqueueThrew>>
  /\ pc' = "abandoned"
  /\ UNCHANGED <<suspended, wire, client, request, reply, observer, stream, env, provider, messages, i,
                 inputTokens, outputTokens, thinkingTokens, toolCallCount, completed,
                 response, idx, results, events, nextId>>

CancelNext ==
  \/ ObserverCancels \/ ProviderReturnsCancelled \/ ToolReturnsCancelled
  \/ ProviderThrows \/ ProviderReturns \/ BeginToolCall \/ ToolReturns \/ EndBatch

\* the runs of one environment, with a cancellation at any await
CancelInit == Init /\ env = LoopEnv
CancelSpec == CancelInit /\ [][CancelNext]_vars

\* ------------------------------------------- the non-streaming variant
\* runGeminiLoop, runAnthropicLoop and runOpenAILoop, run on a script: the
\* answers the provider calls and the tool executions come back with, in the
\* order the loop asks for them.  The loops' histories only feed the
\* provider calls and are left out.
NonStreamingStart ==
  [phase |-> "provider", iter |-> 0, calls |-> <<>>, k |-> 1, trace |-> <<>>,
   finalText |-> Undefined, inputTokens |-> 0, outputTokens |-> 0,
   thinkingTokens |-> 0, toolCallCount |-> 0, completed |-> FALSE]
\* Response.json(result)
AgentLoopResult(st, needs) ==
  [kind |-> "result", status |-> 200, trace |-> Some(st.trace),
   finalText |-> st.finalText, inputTokens |-> st.inputTokens,
   outputTokens |-> st.outputTokens, thinkingTokens |-> st.thinkingTokens,
   toolCallCount |-> st.toolCallCount, completed |-> st.completed,
   needsUserInput |-> needs, error |-> <<>>, details |-> <<>>]
\* the response of POST's catch block: error and details, no trace
ChatApiError(message) ==
  [kind |-> "error", status |-> 500, trace |-> Undefined, finalText |-> Undefined,
   inputTokens |-> 0, outputTokens |-> 0, thinkingTokens |-> 0, toolCallCount |-> 0,
   completed |-> FALSE, needsUserInput |-> FALSE, error |-> <<"Chat API error">>,
   details |-> message]
\* the script ended while the loop was waiting for an answer
StillRunning == [ChatApiError(<<>>) EXCEPT !.kind = "running", !.status = 0]

RECURSIVE runLoop(_, _, _)
runLoop(p, script, st) ==
  IF st.phase = "provider" THEN
    IF script = <<>> THEN StillRunning
    ELSE
      LET r == callProvider(p, Head(script).vendor)
          text == IF Truthy(r.text) THEN <<TextEvent(r.text.val).entry>> ELSE <<>>
          turned == [st EXCEPT !.inputTokens = @ + r.inputTokens,
                               !.outputTokens = @ + r.outputTokens,
                               !.thinkingTokens = @ + r.thinkingTokens,
                               !.trace = @ \o text,
                               !.finalText = IF Truthy(r.text) THEN r.text ELSE @]
      IN IF r.threw THEN ChatApiError(r.message)
         ELSE IF Len(r.toolCalls) = 0 THEN AgentLoopResult(turned, needsUserInput(r))
         ELSE runLoop(p, Tail(script),
                      [turned EXCEPT !.phase = "batch", !.calls = r.toolCalls, !.k = 1])
  ELSE IF st.k > Len(st.calls) THEN
    IF BreaksOnCompleted(st.completed) THEN AgentLoopResult(st, FALSE)
    ELSE IF LoopGoesOn(st.iter)
      THEN runLoop(p, script, [st EXCEPT !.phase = "provider", !.iter = @ + 1])
    ELSE AgentLoopResult(st, FALSE)
  ELSE
    LET tc == CallAt(st.calls, st.k)
        fn == getFunctionByName(tc.name)
        called == [st EXCEPT !.toolCallCount = @ + 1,
                             !.trace = Append(@, ToolCallEvent(tc).entry),
                             !.completed = @ \/ tc.name = CompleteTool]
        Returned(result) ==
          [called EXCEPT !.trace = Append(@, ToolResultEvent(tc, result).entry),
                         !.k = @ + 1]
    IN IF fn = NoFunction
         THEN runLoop(p, script, Returned(UnknownFunctionResult(tc.name)))
       ELSE IF toCodeThrows(fn, tc.args)
         THEN ChatApiError(<<"Cannot read properties of undefined">>)
       ELSE IF script = <<>> THEN StillRunning
       ELSE runLoop(p, Tail(script), Returned(executeToolCallResult(Head(script).outcome)))

\* the non-streaming POST on an accepted request
NonStreamingResponse(p, script) == runLoop(p, script, NonStreamingStart)

\* --------------------------------- the streaming loops, run on a script
\* runGeminiLoopStreaming, runAnthropicLoopStreaming and
\* runOpenAILoopStreaming under POST's reader loop, as a function of the
\* answers they were given: the generator's locals and the events it has
\* yielded when it is suspended in the await the script ends at.
StreamingStart(p, history) ==
  [pc |-> "awaitProvider", messages |-> ConvertHistory(p, history), i |-> 0,
   inputTokens |-> 0, outputTokens |-> 0, thinkingTokens |-> 0,
   toolCallCount |-> 0, completed |-> FALSE, response |-> NoResponse, idx |-> 1,
   results |-> <<>>, events |-> <<>>]
RECURSIVE streamLoop(_, _, _)
streamLoop(p, script, st) ==
  IF st.pc = "awaitProvider" THEN
    IF script = <<>> THEN st
    ELSE
      LET r == callProvider(p, Head(script).vendor)
          inTok == st.inputTokens + r.inputTokens
          outTok == st.outputTokens + r.outputTokens
          thinkTok == st.thinkingTokens + r.thinkingTokens
          head == TurnFrames(TokensEvent(inTok, outTok, thinkTok, st.toolCallCount),
                             IF Truthy(r.text) THEN <<TextEvent(r.text.val)>> ELSE <<>>)
          turned == [st EXCEPT !.inputTokens = inTok, !.outputTokens = outTok,
                               !.thinkingTokens = thinkTok, !.response = r,
                               !.idx = 1, !.results = <<>>,
                               !.events = @ \o head]
      IN IF r.threw
           THEN [st EXCEPT !.pc = "closed", !.events = Append(@, ErrorEvent(r.message))]
         ELSE IF Len(r.toolCalls) = 0
           THEN [turned EXCEPT !.pc = "closed",
                               !.events = Append(@, DoneEvent(st.completed,
                                                              needsUserInput(r)))]
         ELSE streamLoop(p, Tail(script),
                         [turned EXCEPT !.pc = "toolLoop",
                                        !.messages = @ \o AssistantPush(p, r)])
  ELSE IF st.pc = "awaitTool" THEN
    IF script = <<>> THEN st
    ELSE
      LET tc == CallAt(st.response.toolCalls, st.idx)
          result == executeToolCallResult(Head(script).outcome)
      IN streamLoop(p, Tail(script),
                    [st EXCEPT !.pc = "toolLoop",
                               !.events = Append(@, ToolResultEvent(tc, result)),
                               !.results = @ \o ResultPart(p, tc, result),
                               !.messages = @ \o ResultPush(p, tc, result),
                               !.idx = @ + 1])
  ELSE IF st.pc = "toolLoop" THEN
    IF st.idx > Len(st.response.toolCalls) THEN
      LET pushed == [st EXCEPT !.messages = @ \o BatchPush(p, st.response, st.results)]
      IN IF BreaksOnCompleted(st.completed)
           THEN [pushed EXCEPT !.pc = "closed",
                               !.events = @ \o FinalFrames(st.completed)]
         ELSE IF LoopGoesOn(st.i)
           THEN streamLoop(p, script, [pushed EXCEPT !.pc = "awaitProvider", !.i = @ + 1])
         ELSE [pushed EXCEPT !.pc = "closed", !.i = @ + 1,
                             !.events = @ \o FinalFrames(st.completed)]
    ELSE
      LET tc == CallAt(st.response.toolCalls, st.idx)
          fn == getFunctionByName(tc.name)
          head == <<ToolCallEvent(tc),
                    TokensEvent(st.inputTokens, st.outputTokens, st.thinkingTokens,
                                st.toolCallCount + 1)>>
          called == [st EXCEPT !.toolCallCount = @ + 1,
                               !.completed = @ \/ tc.name = CompleteTool,
                               !.events = @ \o head]
          unknown == UnknownFunctionResult(tc.name)
      IN IF fn = NoFunction
           THEN streamLoop(p, script,
                           [called EXCEPT !.events = Append(@, ToolResultEvent(tc, unknown)),
                                          !.results = @ \o ResultPart(p, tc, unknown),
                                          !.messages = @ \o ResultPush(p, tc, unknown),
                                          !.idx = @ + 1])
         ELSE IF toCodeThrows(fn, tc.args)
           THEN [called EXCEPT !.pc = "closed",
                               !.events = Append(@, ErrorEvent(
                                            <<"Cannot read properties of undefined">>))]
         ELSE streamLoop(p, script, [called EXCEPT !.pc = "awaitTool"])
  ELSE st

\* ------------------------------------------------------- concurrent runs
\* Two requests in flight in one server process.  Each POST builds its own
\* history and starts its own generator; the module holds no variable that a
\* run writes.  One run is stepping, the other is suspended in an await
\* with its locals kept aside.
RunLocals ==
  [request |-> request, reply |-> reply, observer |-> observer, stream |-> stream,
   provider |-> provider, pc |-> pc, messages |-> messages, i |-> i,
   inputTokens |-> inputTokens, outputTokens |-> outputTokens,
   thinkingTokens |-> thinkingTokens, toolCallCount |-> toolCallCount,
   completed |-> completed, response |-> response, idx |-> idx,
   results |-> results, events |-> events, log |-> log, nextId |-> nextId]
\* a run POST has just started
StartedRun(p, req) ==
  [request |-> req, reply |-> StreamResponse, observer |-> "connected",
   stream |-> <<>>, provider |-> p, pc |-> "awaitProvider",
   messages |-> ConvertHistory(p, req.history), i |-> 0, inputTokens |-> 0,
   outputTokens |-> 0, thinkingTokens |-> 0, toolCallCount |-> 0,
   completed |-> FALSE, response |-> NoResponse, idx |-> 1, results |-> <<>>,
   events |-> <<>>,
   log |-> <<ProviderInvocation(0, ConvertHistory(p, req.history), DeclaredFunctions(req))>>,
   nextId |-> 0]
\* the given run is the one that is stepping
Starts(run) ==
  /\ request = run.request /\ reply = run.reply /\ observer = run.observer
  /\ stream = run.stream /\ provider = run.provider /\ pc = run.pc
  /\ messages = run.messages /\ i = run.i /\ inputTokens = run.inputTokens
  /\ outputTokens = run.outputTokens /\ thinkingTokens = run.thinkingTokens
  /\ toolCallCount = run.toolCallCount /\ completed = run.completed
  /\ response = run.response /\ idx = run.idx /\ results = run.results
  /\ events = run.events /\ log = run.log /\ nextId = run.nextId
\* the event loop resumes the given run
Resumes(run) ==
  /\ request' = run.request /\ reply' = run.reply /\ observer' = run.observer
  /\ stream' = run.stream /\ provider' = run.provider /\ pc' = run.pc
  /\ messages' = run.messages /\ i' = run.i /\ inputTokens' = run.inputTokens
  /\ outputTokens' = run.outputTokens /\ thinkingTokens' = run.thinkingTokens
  /\ completed' = run.completed /\ response' = run.response /\ idx' = run.idx
  /\ results' = run.results /\ events' = run.events /\ log' = run.log
  /\ nextId' = run.nextId
\* Switch with toolCallCount kept in a variable of the module, which the
\* runs share
SwitchSharedCounter ==
  /\ suspended # <<>>
  /\ pc \in {"awaitProvider", "awaitTool", "closed"}
  /\ Resumes(suspended[1])
  /\ toolCallCount' = toolCallCount
  /\ suspended' = <<RunLocals>>
  /\ UNCHANGED <<env, wire, client>>
\* Switch with the token totals kept in variables of the module, which the
\* runs share
SwitchSharedTotals ==
  /\ suspended # <<>>
  /\ pc \in {"awaitProvider", "awaitTool", "closed"}
  /\ request' = suspended[1].request /\ reply' = suspended[1].reply
  /\ observer' = suspended[1].observer /\ stream' = suspended[1].stream
  /\ provider' = suspended[1].provider /\ pc' = suspended[1].pc
  /\ messages' = suspended[1].messages /\ i' = suspended[1].i
  /\ UNCHANGED <<inputTokens, outputTokens, thinkingTokens>>
  /\ completed' = suspended[1].completed /\ response' = suspended[1].response
  /\ idx' = suspended[1].idx /\ results' = suspended[1].results
  /\ events' = suspended[1].events /\ log' = suspended[1].log
  /\ nextId' = suspended[1].nextId
  /\ toolCallCount' = suspended[1].toolCallCount
  /\ suspended' = <<RunLocals>>
  /\ UNCHANGED <<env, wire, client>>
\* The running generator is suspended in an await (or has returned) and the
\* event loop resumes the other run.
Switch ==
  /\ suspended # <<>>
  /\ pc \in {"awaitProvider", "awaitTool", "closed"}
  /\ Resumes(suspended[1])
  /\ toolCallCount' = suspended[1].toolCallCount
  /\ suspended' = <<RunLocals>>
  /\ UNCHANGED <<env, wire, client>>

\* what the two runs' models and worlds may answer
ConcurrentEnv == Environment({Undefined, Some(AnswerText)}, {EnabledCall, CompleteCall},
                             {ParsedOutput}, {PlainUsage}, {NoLead})
FirstRequest ==
  [apiKey |-> ApiKey, providerHeader |-> "gemini", taskId |-> TaskId,
   cookie |-> SessionCookie, history |-> FreshHistory, enabledServices |-> SpotifyHeader]
SecondRequest ==
  [apiKey |-> ApiKey, providerHeader |-> "anthropic", taskId |-> OtherTaskId,
   cookie |-> SessionCookie, history |-> IdLessHistory,
   enabledServices |-> SpotifyHeader]
ConcurrentInit ==
  /\ env = ConcurrentEnv
  /\ Starts(StartedRun("gemini", FirstRequest))
  /\ suspended = <<StartedRun("anthropic", SecondRequest)>>
  /\ wire = <<>>
  /\ client = NoClient
ConcurrentNext ==
  \/ Switch
  \/ ProviderThrows \/ ProviderReturns \/ BeginToolCall \/ ToolReturns \/ EndBatch
ConcurrentSpec == ConcurrentInit /\ [][ConcurrentNext]_vars

\* Two runs of the same request in flight in one server process: the same
\* provider and the same history, each with its own answers.
TwinEnv == Environment({Some(AnswerText)}, {EnabledCall, NullishArgsCall},
                       {ParsedOutput, FetchThrown}, {PlainUsage}, {NoLead})
TwinRequest(p) == [FirstRequest EXCEPT !.providerHeader = p]
TwinInit ==
  /\ env = TwinEnv
  /\ \E p \in Providers :
       /\ Starts(StartedRun(p, TwinRequest(p)))
       /\ suspended = <<StartedRun(p, TwinRequest(p))>>
  /\ wire = <<>>
  /\ client = NoClient
TwinSpec == TwinInit /\ [][ConcurrentNext]_vars

\* ---------------------------------------------------- the playground page
\* handleRunAgent and handleStopAgent of the page, reading the response of
\* one chat request after another.  The response body is a sequence of
\* bytes; a byte stands for a piece of a frame: the two halves of "data: ",
\* the two halves of the event's JSON text, and the two line feeds.
MaxRuns == 2
Sym(s) == [sym |-> s, of |-> <<>>]
\* encoder.encode(formatSSE(event))
Encode(chunk) ==
  <<Sym("da"), Sym("ta: "), [sym |-> "{", of |-> <<chunk[2].json>>],
    [sym |-> "}", of |-> <<chunk[2].json>>]>>
  \o [k \in 1..2 |-> Sym("\n")]
\* the response body: the chunks POST enqueued, end to end
Body(chunks) == Flatten([k \in 1..Len(chunks) |-> Encode(chunks[k])])

\* buffer.split("\n\n"): the pieces between the blank lines, cur the piece
\* being read
RECURSIVE SplitBlank(_, _)
SplitBlank(text, cur) ==
  IF text = <<>> THEN <<cur>>
  ELSE IF Len(text) >= 2 /\ text[1].sym = "\n" /\ text[2].sym = "\n"
    THEN <<cur>> \o SplitBlank(SubSeq(text, 3, Len(text)), <<>>)
  ELSE SplitBlank(Tail(text), Append(cur, Head(text)))
\* a reader that starts each read with an empty buffer
DropTail(lines) == <<>>
\* buffer = lines.pop() || ""
KeepTail(lines) == lines[Len(lines)]
\* lines after lines.pop()
CompleteLines(lines) == SubSeq(lines, 1, Len(lines) - 1)
\* line.startsWith("data: ")
StartsWithData(line) == Len(line) >= 2 /\ line[1].sym = "da" /\ line[2].sym = "ta: "
\* line.slice(6)
Slice6(line) == SubSeq(line, 3, Len(line))
\* JSON.parse: the event in a sequence, or the empty sequence if it throws
JSONParse(text) ==
  IF Len(text) = 2 /\ text[1].sym = "{" /\ text[2].sym = "}" /\ text[1].of = text[2].of
    THEN text[1].of
  ELSE <<>>

\* event.messages || prev.conversationMessages
EventMessagesOr(event, prev) ==
  IF "messages" \in DOMAIN event /\ event.messages # <<>> THEN event.messages ELSE prev
addTraceEntry(c, type, content) ==
  [c EXCEPT !.trace = Append(@, [type |-> type, content |-> content])]
\* the body of the try block of the reader loop for one parsed event
HandleEvent(c, event) ==
  LET seen == [c EXCEPT !.handled = Append(@, event)] IN
    IF event.type = "trace"
      THEN addTraceEntry(seen, event.entry.type, event.entry.content)
    ELSE IF event.type = "tokens"
      THEN [seen EXCEPT !.tokenUsage =
              [inputTokens |-> event.inputTokens, outputTokens |-> event.outputTokens,
               thinkingTokens |-> event.thinkingTokens,
               toolCalls |-> event.toolCallCount]]
    ELSE IF event.type = "done"
      THEN LET noted ==
                 IF event.completed
                   THEN addTraceEntry(seen, "text", <<"Agent marked task as complete.">>)
                 ELSE IF event.needsUserInput
                   THEN addTraceEntry(seen, "text",
                                      <<"Agent is waiting for additional input...">>)
                 ELSE seen
           IN [noted EXCEPT !.isRunning = FALSE,
                            !.needsUserInput = event.needsUserInput,
                            !.conversationMessages = EventMessagesOr(event, @)]
    ELSE IF event.type = "error"
      THEN [addTraceEntry(seen, "error",
                          <<"Agent error: ">> \o event.error \o <<" - ">> \o event.details)
              EXCEPT !.isRunning = FALSE]
    ELSE seen
HandleLine(c, line) ==
  IF StartsWithData(line)
    THEN LET parsed == JSONParse(Slice6(line))
         IN IF parsed = <<>> THEN c ELSE HandleEvent(c, parsed[1])
  ELSE c
RECURSIVE HandleLines(_, _)
HandleLines(c, lines) ==
  IF lines = <<>> THEN c ELSE HandleLines(HandleLine(c, Head(lines)), Tail(lines))

\* the runs the server serves the page: an answer in text, a completion call,
\* a provider failure
AnswerScript ==
  <<ReturnedTurn(VendorTurn(Some(AnswerText), <<>>, PlainUsage, 0, NoLead))>>
CompletionScript ==
  <<ReturnedTurn(VendorTurn(Undefined, <<CompleteCall>>, PlainUsage, 0, NoLead)),
    ExecutorReturn(CompleteCall, ParsedOutput)>>
FailureScript == <<FailedCall(VendorThrows)>>
\* a tool call, its result, then a question to the user
ToolThenAskScript ==
  <<ReturnedTurn(VendorTurn(Undefined, <<EnabledCall>>, PlainUsage, 0, NoLead)),
    ExecutorReturn(EnabledCall, ParsedOutput),
    ReturnedTurn(VendorTurn(Some(AnswerText), <<>>, PlainUsage, 0, NoLead))>>
ClientScripts == {AnswerScript, CompletionScript, FailureScript, ToolThenAskScript}
\* the server's run on the history of the request body and a script, ended,
\* with the chunks it enqueued
ServedRunOn(history, script) ==
  LET st == streamLoop("gemini", script, StreamingStart("gemini", history)) IN
    [request |-> [FirstRequest EXCEPT !.history = history], reply |-> StreamResponse, observer |-> "connected",
     stream |-> Chunks(st.events), provider |-> "gemini", pc |-> st.pc,
     messages |-> st.messages, i |-> st.i, inputTokens |-> st.inputTokens,
     outputTokens |-> st.outputTokens, thinkingTokens |-> st.thinkingTokens,
     toolCallCount |-> st.toolCallCount, completed |-> st.completed,
     response |-> st.response, idx |-> st.idx, results |-> st.results,
     events |-> st.events, log |-> <<>>, nextId |-> 0]
\* the server's run on a first request
ServedRun(script) == ServedRunOn(FreshHistory, script)

\* handleRunAgent up to its await fetch: the page's state and the request's
\* locals
StartedPage ==
  [phase |-> "fetching", run |-> 1, isRunning |-> TRUE, shouldStop |-> FALSE,
   needsUserInput |-> FALSE, abortController |-> "live", signal |-> "live",
   trace |-> <<[type |-> "user_input", content |-> UserText]>>,
   tokenUsage |-> [inputTokens |-> 0, outputTokens |-> 0, thinkingTokens |-> 0,
                   toolCalls |-> 0],
   buffer |-> <<>>, handled |-> <<>>,
   conversationMessages |-> <<UserMessage(UserText)>>, earlier |-> <<>>, stale |-> 0]
ClientInit ==
  /\ env = ConcurrentEnv
  /\ suspended = <<>>
  /\ \E script \in ClientScripts :
       /\ Starts(ServedRun(script))
       /\ wire = Body(ServedRun(script).stream)
  /\ client = StartedPage

runVars == <<request, reply, observer, stream, provider, pc, messages, i, inputTokens,
             outputTokens, thinkingTokens, toolCallCount, completed, response, idx,
             results, events, log, nextId>>

\* await fetch resolves with the text/event-stream response; the reader is
\* taken and the loop awaits its first read
ResponseArrives ==
  /\ client.phase = "fetching"
  /\ client' = [client EXCEPT !.phase = "reading"]
  /\ UNCHANGED <<env, suspended, wire, runVars>>
\* reader.read() resolves with the next n bytes: one pass of the while loop
ReadChunk ==
  /\ client.phase = "reading"
  /\ wire # <<>>
  /\ \E n \in 1..Len(wire) :
       LET lines == SplitBlank(client.buffer \o SubSeq(wire, 1, n), <<>>) IN
         /\ wire' = SubSeq(wire, n + 1, Len(wire))
         /\ client' = [HandleLines(client, CompleteLines(lines))
                         EXCEPT !.buffer = KeepTail(lines)]
  /\ UNCHANGED <<env, suspended, runVars>>
\* reader.read() resolves with done: the remaining buffer, isRunning false,
\* the finally block
ReadDone ==
  /\ client.phase = "reading"
  /\ wire = <<>>
  /\ client' = [client EXCEPT !.phase = "finished", !.isRunning = FALSE,
                              !.abortController = "null"]
  /\ UNCHANGED <<env, suspended, wire, runVars>>
\* handleStopAgent that leaves the request alone
StopAgentWithoutAbort ==
  /\ client.phase \in {"fetching", "reading"}
  /\ client.isRunning
  /\ client' = [addTraceEntry(client, "text", <<"Agent stopped by user.">>)
                  EXCEPT !.shouldStop = TRUE, !.isRunning = FALSE,
                         !.needsUserInput = FALSE]
  /\ UNCHANGED <<env, suspended, wire, runVars>>
\* handleStopAgent while the request is in flight: abort() rejects the
\* pending fetch or read
StopAgent ==
  /\ client.phase \in {"fetching", "reading"}
  /\ client.isRunning
  /\ client' = [addTraceEntry(client, "text", <<"Agent stopped by user.">>)
                  EXCEPT !.shouldStop = TRUE, !.isRunning = FALSE,
                         !.needsUserInput = FALSE,
                         !.signal = IF client.abortController = "live"
                                      THEN "aborted" ELSE @,
                         !.phase = IF client.abortController = "live"
                                     THEN "aborted" ELSE @,
                         !.abortController = "null"]
  /\ UNCHANGED <<env, suspended, wire, runVars>>
\* the rejected await of the aborted request: catch (AbortError) returns,
\* finally clears the controller
RequestRejects ==
  /\ client.phase = "aborted"
  /\ client' = [client EXCEPT !.phase = "stopped", !.abortController = "null"]
  /\ UNCHANGED <<env, suspended, wire, runVars>>
\* the server answers the request: its run, ended, and the response body on
\* the wire
Serves(run) ==
  /\ Resumes(run)
  /\ toolCallCount' = run.toolCallCount
  /\ wire' = Body(run.stream)
\* The page can start a request: the Run button and the input box are
\* enabled while isRunning is false.  The request before has ended, or its
\* reader loop has handled the terminal event and awaits the end of the
\* stream.
PageIdle ==
  /\ ~client.isRunning
  /\ \/ client.phase \in {"stopped", "finished"}
     \/ (client.phase = "reading" /\ wire = <<>>)
\* the requests whose reader loops are still awaiting the end of their
\* stream once a new request is started
StillStreaming == client.stale + (IF client.phase = "reading" THEN 1 ELSE 0)
\* handleRunAgent, again
StartRun ==
  /\ PageIdle
  /\ client.run < MaxRuns
  /\ \E script \in ClientScripts : Serves(ServedRun(script))
  /\ client' = [addTraceEntry(client, "user_input", UserText)
                  EXCEPT !.phase = "fetching", !.run = @ + 1, !.isRunning = TRUE,
                         !.shouldStop = FALSE, !.needsUserInput = FALSE,
                         !.abortController = "live", !.signal = "live",
                         !.buffer = <<>>, !.handled = <<>>,
                         !.conversationMessages = <<UserMessage(UserText)>>,
                         !.earlier = <<>>, !.stale = StillStreaming]
  /\ UNCHANGED <<env, suspended>>
\* the user's reply to the agent's question
UserReply == <<"Go on.">>
\* handleSendUserInput: the continuation request, sent when the run before
\* asked for input
SendUserInput ==
  /\ PageIdle
  /\ client.needsUserInput
  /\ client.run < MaxRuns
  /\ LET updatedMessages == client.conversationMessages \o <<UserMessage(UserReply)>> IN
       /\ \E script \in ClientScripts : Serves(ServedRunOn(updatedMessages, script))
       /\ client' = [addTraceEntry(client, "user_input", UserReply)
                       EXCEPT !.phase = "fetching", !.run = @ + 1, !.isRunning = TRUE,
                              !.shouldStop = FALSE, !.needsUserInput = FALSE,
                              !.abortController = "live", !.signal = "live",
                              !.buffer = <<>>, !.handled = <<>>,
                              !.conversationMessages = updatedMessages,
                              !.earlier = @ \o client.handled,
                              !.stale = StillStreaming]
  /\ UNCHANGED <<env, suspended>>
\* reader.read() of an earlier request resolves with done after a newer
\* request was started: isRunning false, and the finally block clears the
\* stored controller
EarlierReadDone ==
  /\ client.stale > 0
  /\ client' = [client EXCEPT !.stale = @ - 1, !.isRunning = FALSE,
                              !.abortController = "null"]
  /\ UNCHANGED <<env, suspended, wire, runVars>>
ClientNext ==
  \/ ResponseArrives \/ ReadChunk \/ ReadDone \/ StopAgent \/ RequestRejects
  \/ StartRun \/ SendUserInput \/ EarlierReadDone
ClientSpec == ClientInit /\ [][ClientNext]_vars

TypeOK ==
  /\ pc \in {"request", "rejected", "awaitProvider", "toolLoop", "awaitTool",
            "closed", "abandoned"}
  /\ provider \in Providers \cup {"none"}
  /\ observer \in {"connected"} \cup CancelOutcomes
  /\ Len(stream) = Len(events)
  /\ i \in 0..MaxIterations
  /\ completed \in BOOLEAN

\* ============================================================ the claims
Last(sq) == sq[Len(sq)]
IsTerminal(ev) == ev.type \in {"done", "error"}
TerminalPositions == {k \in 1..Len(events) : IsTerminal(events[k])}
LogPositions(kind) == {k \in 1..Len(log) : log[k].kind = kind}
ProviderInvocations == Cardinality(LogPositions("provider"))
IsTrace(ev, type) == ev.type = "trace" /\ ev.entry.type = type
IsFrameOf(entry, type) == entry.kind = "frame" /\ IsTrace(entry.event, type)

\* C1: the stream of a run carries at most one terminal frame (done or
\* error), a terminal frame is the last frame, and the stream is closed
\* exactly when it carries one: a closed stream has exactly one of done and
\* error and nothing after it.
C1_OneTerminalEvent ==
  /\ Cardinality(TerminalPositions) <= 1
  /\ \A k \in TerminalPositions : k = Len(events)
  /\ (pc = "closed") <=> (Cardinality(TerminalPositions) = 1)

\* a run that ends in an error frame after a whole iteration's frames
C1_Witness ==
  /\ pc = "closed"
  /\ ProviderInvocations = 2
  /\ Last(events).type = "error"
  /\ \E k \in 1..Len(events) : IsTrace(events[k], "tool_result")

\* C2: under fairness (every provider call and tool execution comes back,
\* the generator runs when it can) every run eventually closes its stream
\* with exactly one terminal frame, whatever the model does.
C2_EventuallyTerminal ==
  <>(pc = "closed" /\ Cardinality(TerminalPositions) = 1)

\* a run in which the model issued tool calls in every iteration up to the
\* bound and the loop ended it
C2_Witness ==
  /\ pc = "closed"
  /\ i = MaxIterations
  /\ Cardinality({k \in LogPositions("turn") : Len(log[k].names) > 0}) = MaxIterations
  /\ Last(events).type = "done"

\* ---- shared vocabulary of C3..C10
Max(S) == CHOOSE m \in S : \A n \in S : n <= m
FramePositions(type) == {k \in 1..Len(log) : IsFrameOf(log[k], type)}
IsDoneFrame(entry) == entry.kind = "frame" /\ entry.event.type = "done"
IsErrorFrame(entry) == entry.kind = "frame" /\ entry.event.type = "error"
\* every name getFunctionByName can resolve
RegistryNames ==
  Range(baseTools) \cup {executePythonTool}
  \cup UNION {Range(services[k].functions) : k \in 1..Len(services)}
\* the tool set declared to the model in this run
ActiveNames == Range(getEnabledFunctions(EnabledServices))
TurnsWithCalls == {t \in LogPositions("turn") : Len(log[t].names) > 0}
CompletionIssued ==
  \E t \in LogPositions("turn") : CompleteTool \in Range(log[t].names)
\* where the loop is after one call's tool_result: the next call, the next
\* provider invocation, or the done frame - never the error frame
LoopWentOn(k) ==
  k <= Len(log) =>
    \/ IsFrameOf(log[k], "tool_call")
    \/ log[k].kind = "provider"
    \/ /\ IsDoneFrame(log[k])
       /\ log[k].event.completed \/ ProviderInvocations = MaxIterations

\* C3: the number of provider invocations never exceeds maxIterations, and a
\* run in which the model returned tool calls in each of maxIterations
\* iterations without ever issuing supervisor_complete_task ends with
\* done(completed=false, needsUserInput=false), not with an error.
C3_IterationBound ==
  /\ ProviderInvocations <= MaxIterations
  /\ (/\ pc = "closed"
      /\ Cardinality(TurnsWithCalls) = MaxIterations
      /\ ~CompletionIssued)
     => Last(events) = DoneEvent(FALSE, FALSE)

\* C4: every executor call comes right after the tool_call frame of its
\* call; every tool_result frame comes after the tool_call frame of the same
\* call (and after the executor's return when the tool was executed); at
\* every provider invocation each earlier tool_call has its tool_result.
C4_ToolEventOrder ==
  LET calls == FramePositions("tool_call")
      rets == FramePositions("tool_result")
      Before(S, k) == {c \in S : c < k}
  IN
    /\ \A e \in LogPositions("exec") :
         /\ Before(calls, e) # {}
         /\ log[Max(Before(calls, e))].event.entry.name = log[e].name
         /\ Cardinality(Before(calls, e)) = Cardinality(Before(rets, e)) + 1
    /\ \A r \in rets :
         /\ Before(calls, r) # {}
         /\ log[Max(Before(calls, r))].event.entry.name = log[r].event.entry.name
         /\ Cardinality(Before(calls, r)) = Cardinality(Before(rets, r)) + 1
         /\ log[r].event.entry.name \in RegistryNames =>
              \E x \in LogPositions("exec_return") :
                /\ Max(Before(calls, r)) < x /\ x < r
                /\ \E e \in LogPositions("exec") : Max(Before(calls, r)) < e /\ e < x
    /\ \A q \in LogPositions("provider") :
         Cardinality(Before(calls, q)) = Cardinality(Before(rets, q))

\* a second provider invocation issued after a batch of two executed calls
C4_Witness ==
  /\ ProviderInvocations = 2
  /\ Cardinality(LogPositions("exec_return")) >= 2
  /\ Cardinality(FramePositions("tool_result")) >= 2

\* C5: when a batch with at least two calls contains supervisor_complete_task,
\* the run ends with every call of the batch having its tool_result, in
\* order, every resolvable call executed, and done(completed=true,
\* needsUserInput=false) as the last frame, with no later provider invocation.
C5_CompletionShortCircuit ==
  \A t \in LogPositions("turn") :
    (/\ pc = "closed"
     /\ Len(log[t].names) >= 2
     /\ CompleteTool \in Range(log[t].names))
    => LET after == {k \in FramePositions("tool_result") : k > t}
           execs == {k \in LogPositions("exec") : k > t}
       IN /\ Cardinality(after) = Len(log[t].names)
          /\ Cardinality(execs)
               = Cardinality({k \in 1..Len(log[t].names) : log[t].names[k] \in RegistryNames})
          /\ Last(events) = DoneEvent(TRUE, FALSE)
          /\ \A q \in LogPositions("provider") : q < t

\* ---- the tool results a history carries, in order, as (key, content) pairs:
\* the key is the name for Gemini function responses and the id for
\* Anthropic tool_result blocks and OpenAI tool messages
PartResult(p, part) ==
  IF p = "gemini"
    THEN (IF part.kind = "functionResponse"
            THEN <<[key |-> part.name, content |-> part.response]>> ELSE <<>>)
  ELSE (IF part.type = "tool_result"
          THEN <<[key |-> part.tool_use_id, content |-> part.content]>> ELSE <<>>)
MessageResults(p, m) ==
  IF p = "gemini"
    THEN (IF m.role = "user"
            THEN Flatten([k \in 1..Len(m.parts) |-> PartResult(p, m.parts[k])]) ELSE <<>>)
  ELSE IF p = "anthropic"
    THEN (IF m.role = "user"
            THEN Flatten([k \in 1..Len(m.content) |-> PartResult(p, m.content[k])])
            ELSE <<>>)
  ELSE (IF m.role = "tool" THEN <<[key |-> m.tool_call_id, content |-> m.content]>>
                           ELSE <<>>)
HistoryResults(p, msgs) == Flatten([k \in 1..Len(msgs) |-> MessageResults(p, msgs[k])])
\* the log positions in increasing order
RECURSIVE Ordered(_)
Ordered(S) == IF S = {} THEN <<>> ELSE Ordered(S \ {Max(S)}) \o <<Max(S)>>
CallKey(p, tc) == IF p = "gemini" THEN tc.name ELSE tc.id
\* the batch of response has been walked to its end and pushed
BatchProcessed ==
  /\ Len(response.toolCalls) > 0
  /\ idx = Len(response.toolCalls) + 1
  /\ pc \in {"awaitProvider", "closed"}

\* C6: once a batch is processed, the tool results the history gained since
\* the provider invocation that returned the batch are as many as the batch's
\* calls, and the k-th of them carries the k-th call's name (Gemini) or id
\* (Anthropic, OpenAI) and the content of the k-th tool_result frame.
C6_ResultCorrespondence ==
  BatchProcessed =>
    LET t == Max(LogPositions("turn"))
        q == Max({k \in LogPositions("provider") : k < t})
        before == HistoryResults(provider, log[q].messages)
        now == HistoryResults(provider, messages)
        gained == SubSeq(now, Len(before) + 1, Len(now))
        frames == Ordered({k \in FramePositions("tool_result") : k > t})
    IN /\ SubSeq(now, 1, Len(before)) = before
       /\ Len(gained) = Len(response.toolCalls)
       /\ Len(frames) = Len(response.toolCalls)
       /\ \A k \in 1..Len(gained) :
            /\ gained[k].key = CallKey(provider, response.toolCalls[k])
            /\ gained[k].content = log[frames[k]].event.entry.content

\* a processed batch of two calls in a loop that correlates results by id
C6_Witness ==
  /\ BatchProcessed
  /\ provider = "anthropic"
  /\ Len(response.toolCalls) = 2
  /\ response.toolCalls[1].id # response.toolCalls[2].id
  /\ pc = "awaitProvider"

\* C7: a call of a name that getFunctionByName cannot resolve gets, right
\* after its tool_call and tokens frames, the tool_result frame
\* 'Error: Unknown function "<name>"'; the executor is never called for such
\* a name; and the loop goes on after it: to the next call of the batch, to
\* the next provider invocation, or to the done frame when the batch also
\* completed the task or the iteration bound is reached - not to an error.
C7_UnknownToolContained ==
  /\ \A e \in LogPositions("exec") : log[e].name \in RegistryNames
  /\ \A c \in FramePositions("tool_call") :
       log[c].event.entry.name \notin RegistryNames =>
         /\ c + 2 <= Len(log)
         /\ log[c + 2] = Frame([type |-> "trace",
                                entry |-> [type |-> "tool_result",
                                           content |-> <<"Error: Unknown function \"",
                                                         log[c].event.entry.name, "\"">>,
                                           name |-> log[c].event.entry.name]])
         /\ LoopWentOn(c + 3)

\* an unresolvable call, then another call of the same batch executed, then
\* the next provider invocation
C7_Witness ==
  \E c \in FramePositions("tool_call") :
    /\ log[c].event.entry.name \notin RegistryNames
    /\ c + 3 <= Len(log)
    /\ IsFrameOf(log[c + 3], "tool_call")
    /\ \E x \in LogPositions("exec_return") : x > c
    /\ \E q \in LogPositions("provider") : q > c

\* C8: a tool call whose name is not in the run's active tool set is never
\* executed against the world and gets the unknown-function tool_result.
C8_OnlyActiveToolsExecuted ==
  /\ \A e \in LogPositions("exec") : log[e].name \in ActiveNames
  /\ \A c \in FramePositions("tool_call") :
       (log[c].event.entry.name \notin ActiveNames /\ c + 2 <= Len(log)) =>
         /\ IsFrameOf(log[c + 2], "tool_result")
         /\ Head(log[c + 2].event.entry.content) = "Error: Unknown function \""

\* the string starts with the word Error
StartsWithError(str) ==
  /\ str # <<>>
  /\ Head(str) \in {"Error: ", "Error: HTTP ", "Error executing tool: ",
                    "Error: Unknown function \""}
ToolResultContents(entries) ==
  LET pos == Ordered({k \in 1..Len(entries) : IsFrameOf(entries[k], "tool_result")})
  IN [k \in 1..Len(pos) |-> entries[pos[k]].event.entry.content]
\* the results in the history, then those the loop still holds for the push
\* at the end of the batch
KeptResults ==
  LET inHistory == HistoryResults(provider, messages)
      pending == IF BatchProcessed THEN <<>> ELSE results
      held == Flatten([k \in 1..Len(pending) |-> PartResult(provider, pending[k])])
  IN [k \in 1..Len(inHistory) |-> inHistory[k].content]
     \o [k \in 1..Len(held) |-> held[k].content]

\* C9: when the executor fails for a resolved tool (fetch throws, non-OK
\* status, unparsable body, error field), the next frame is the call's
\* tool_result with a content that starts with Error, no error frame is
\* enqueued for it, the loop goes on to the next call, the next provider
\* invocation or the done frame of a completed or exhausted run, and the
\* results kept for the history are exactly the contents of the tool_result
\* frames, in order.
C9_ExecutorFailureContained ==
  /\ \A x \in LogPositions("exec_return") :
       log[x].outcome \in FetchFailures =>
         /\ x + 1 <= Len(log)
         /\ IsFrameOf(log[x + 1], "tool_result")
         /\ log[x + 1].event.entry.name = log[x].name
         /\ StartsWithError(log[x + 1].event.entry.content)
         /\ LoopWentOn(x + 2)
  /\ KeptResults = ToolResultContents(log)

\* an HTTP failure and a failure of another kind in one run, and a provider
\* invocation after them
C9_Witness ==
  \E x, y \in LogPositions("exec_return") :
    /\ log[x].outcome = HttpFailure
    /\ log[y].outcome \in FetchFailures \ {HttpFailure}
    /\ \E q \in LogPositions("provider") : q > x /\ q > y

\* C10: a turn without tool calls ends the run in that iteration: after the
\* tokens frame comes the text frame exactly when the turn carried non-empty
\* text, then the done frame, whose needsUserInput is true exactly in that
\* case, and nothing else; a run whose only turn has text and no tool calls
\* is tokens, one text frame, done(completed=false, needsUserInput=true),
\* with no executor call.
C10_NoToolCallsDone ==
  \A t \in LogPositions("turn") :
    log[t].names = <<>> =>
      LET nonEmpty == log[t].text.def /\ log[t].text.val # <<>>
          last == t + (IF nonEmpty THEN 3 ELSE 2)
      IN /\ pc = "closed"
         /\ Len(log) = last
         /\ log[t + 1].kind = "frame" /\ log[t + 1].event.type = "tokens"
         /\ nonEmpty => log[t + 2] = Frame(TextEvent(log[t].text.val))
         /\ IsDoneFrame(log[last])
         /\ log[last].event.needsUserInput = nonEmpty
         /\ (nonEmpty /\ ProviderInvocations = 1) =>
              /\ Len(events) = 3
              /\ events[2] = TextEvent(log[t].text.val)
              /\ events[3] = DoneEvent(FALSE, TRUE)
              /\ LogPositions("exec") = {}

\* runs that end on a turn without tool calls: one with text, first turn; one
\* with an empty text after an iteration with tool calls
C10_Witness ==
  /\ pc = "closed"
  /\ Len(response.toolCalls) = 0
  /\ Last(events) = DoneEvent(FALSE, TRUE)
  /\ Len(events) = 3
  /\ events[2] = TextEvent(AnswerText)

\* C11: a turn that carries non-empty text and a supervisor_complete_task
\* call has its text frame right after the turn's tokens frame, and the run
\* ends with done(completed=true, needsUserInput=false).
C11_CompletionBeatsText ==
  \A t \in LogPositions("turn") :
    (Truthy(log[t].text) /\ CompleteTool \in Range(log[t].names)) =>
      /\ log[t + 2] = Frame(TextEvent(log[t].text.val))
      /\ pc = "closed" => Last(events) = DoneEvent(TRUE, FALSE)

\* the totals of the tokens frames, in the order of the frames
TokenFrames ==
  LET pos == Ordered({k \in 1..Len(log) :
                        log[k].kind = "frame" /\ log[k].event.type = "tokens"})
  IN [k \in 1..Len(pos) |-> log[pos[k]].event]
\* what the adapter reported for each turn returned so far, in order
ReportedTurns ==
  LET pos == Ordered(LogPositions("turn"))
  IN [k \in 1..Len(pos) |-> callProvider(provider, log[pos[k]].vendor)]
RECURSIVE Sum(_)
Sum(ns) == IF ns = <<>> THEN 0 ELSE Head(ns) + Sum(Tail(ns))

\* C12: the input, output and thinking totals of successive tokens frames
\* never decrease, and the running totals equal the sums of the values the
\* adapter reported for the turns so far.
C12_TokenMonotonicity ==
  /\ \A k \in 1..(Len(TokenFrames) - 1) :
       /\ TokenFrames[k].inputTokens <= TokenFrames[k + 1].inputTokens
       /\ TokenFrames[k].outputTokens <= TokenFrames[k + 1].outputTokens
       /\ TokenFrames[k].thinkingTokens <= TokenFrames[k + 1].thinkingTokens
  /\ inputTokens = Sum([k \in 1..Len(ReportedTurns) |-> ReportedTurns[k].inputTokens])
  /\ outputTokens = Sum([k \in 1..Len(ReportedTurns) |-> ReportedTurns[k].outputTokens])
  /\ thinkingTokens
       = Sum([k \in 1..Len(ReportedTurns) |-> ReportedTurns[k].thinkingTokens])

\* C13: when a provider call fails, the next thing on the stream is the
\* error frame, whose details are the vendor's message when the vendor call
\* threw (and the adapter's message when there was no candidate or choice);
\* the frame is the last entry of the run: no provider invocation, executor
\* call or frame follows, the stream is closed, it carries no done frame,
\* and every frame enqueued before the failure is still on it.
C13_ProviderFailureFatal ==
  \A f \in LogPositions("failure") :
    /\ f + 1 = Len(log)
    /\ log[f - 1].kind = "provider"
    /\ IsErrorFrame(log[f + 1])
    /\ log[f].vendor.throws => log[f + 1].event.details = log[f].vendor.message
    /\ log[f + 1].event.details = callProvider(provider, log[f].vendor).message
    /\ log[f + 1].event.details # <<>>
    /\ pc = "closed"
    /\ \A k \in 1..Len(events) : events[k].type # "done"
    /\ Cardinality({k \in 1..Len(events) : events[k].type = "error"}) = 1
    /\ Ordered({k \in 1..Len(log) : log[k].kind = "frame"}) # <<>>
    /\ LET pos == Ordered({k \in 1..Len(log) : log[k].kind = "frame"})
       IN events = [k \in 1..Len(pos) |-> log[pos[k]].event]

\* the vendor throws in the second iteration, after a batch was executed
C13_Witness ==
  /\ LogPositions("failure") # {}
  /\ log[Max(LogPositions("failure"))].vendor.throws
  /\ ProviderInvocations = 2
  /\ LogPositions("exec_return") # {}
  /\ Len(events) > 3

\* the request lacks the credential or the session handle
Unauthorized == request.apiKey = Missing \/ request.taskId = Missing
                \/ request.cookie = Missing

\* C14: for a request without x-api-key, or without taskId or cookie, POST
\* never calls a provider, never executes a tool and never opens a stream:
\* nothing is logged, no event exists, no chunk is enqueued, and once POST
\* has answered, the answer is a 400 JSON error.
C14_RejectedBeforeRun ==
  Unauthorized =>
    /\ log = <<>>
    /\ events = <<>>
    /\ stream = <<>>
    /\ pc \in {"request", "rejected"}
    /\ reply.kind # "stream"
    /\ pc = "rejected" => (reply.kind = "json" /\ reply.status = 400)

\* a request with a key and a task id but no cookie has been answered
C14_Witness ==
  /\ pc = "rejected"
  /\ request.apiKey # Missing
  /\ request.taskId # Missing
  /\ request.cookie = Missing
  /\ reply = MissingSessionResponse

\* C15: for a request whose x-model-provider names none of gemini, anthropic
\* and openai, POST opens no stream and no provider adapter is called.
C15_UnknownProviderRejected ==
  request.providerHeader \notin {Missing, "gemini", "anthropic", "openai"} =>
    /\ LogPositions("provider") = {}
    /\ reply.kind # "stream"

\* C16: after the observer has cancelled, the operation in flight may return,
\* but no provider invocation and no tool execution begins, and no frame,
\* in particular no done frame, is enqueued.
C16_CancellationStopsRun ==
  \A c \in LogPositions("cancel") :
    \A k \in (c + 1)..Len(log) :
      /\ log[k].kind \notin {"provider", "exec"}
      /\ log[k].kind # "frame"

\* the events the generator yielded (and the error event of POST's catch),
\* in the order of the log
IsFrameEntry(entry) == entry.kind = "frame"
Yielded ==
  LET frames == SelectSeq(log, IsFrameEntry)
  IN [k \in 1..Len(frames) |-> frames[k].event]

\* C17: the stream carries one chunk per yielded event, in the order of the
\* yields: the k-th chunk is "data: " + the JSON of the k-th event + "\n\n",
\* so that what the reader parses out of the k-th chunk is the k-th event.
C17_OneFramePerEvent ==
  LET yielded == Yielded IN
    /\ Len(stream) = Len(yielded)
    /\ events = yielded
    /\ stream = [k \in 1..Len(yielded) |-> <<"data: ", [json |-> yielded[k]], "\n\n">>]

\* a closed stream with the frames of two iterations
C17_Witness ==
  /\ pc = "closed"
  /\ ProviderInvocations = 2
  /\ Len(stream) >= 8
  /\ \E k \in 1..Len(stream) : stream[k][2].json.type = "done"

\* the asynchronous operations of a run: a provider call is outstanding from
\* its "provider" entry to its "turn" or "failure" entry, a tool execution
\* from its "exec" entry to its "exec_return" entry
IsStart(entry) == entry.kind \in {"provider", "exec"}
IsEnd(entry) == entry.kind \in {"turn", "failure", "exec_return"}
Outstanding(n) ==
  Cardinality({k \in 1..n : IsStart(log[k])}) - Cardinality({k \in 1..n : IsEnd(log[k])})
IsResolvable(name) == name \in RegistryNames

\* C18: at every point of a run at most one provider call or tool execution
\* is outstanding; the executions of a batch are those of its resolvable
\* calls, started in the order of the calls, each after the one before it
\* has returned; and a provider call starts only when every call of the
\* batch before it has its result.
C18_OneOutstandingOperation ==
  /\ \A n \in 1..Len(log) : Outstanding(n) \in {0, 1}
  /\ \A s \in 1..Len(log) : IsStart(log[s]) => Outstanding(s - 1) = 0
  /\ \A t \in LogPositions("turn") :
       LET later == {u \in LogPositions("turn") \cup LogPositions("failure") : u > t}
           end == IF later = {} THEN Len(log)
                  ELSE (CHOOSE u \in later : \A w \in later : u <= w) - 1
           batch == SubSeq(log, t + 1, end)
           IsExec(entry) == entry.kind = "exec"
           IsResult(entry) == IsFrameOf(entry, "tool_result")
           IsProvider(entry) == entry.kind = "provider"
           execs == SelectSeq(batch, IsExec)
           expected == SelectSeq(log[t].names, IsResolvable)
       IN /\ Len(execs) <= Len(expected)
          /\ \A k \in 1..Len(execs) : execs[k].name = expected[k]
          /\ SelectSeq(batch, IsProvider) # <<>> =>
               /\ Len(execs) = Len(expected)
               /\ Len(SelectSeq(batch, IsResult)) = Len(log[t].names)
               /\ batch[Len(batch)].kind = "provider"

\* a batch of two different tools, both executed and returned, in a run that
\* has ended
C18_Witness ==
  \E t \in LogPositions("turn") :
    /\ log[t].names \in {<<"spotify_login", CompleteTool>>,
                         <<CompleteTool, "spotify_login">>}
    /\ Cardinality({x \in LogPositions("exec_return") : x > t}) = 2
    /\ pc = "closed"

\* C19: a tokens frame that shows toolCallCount = n comes only after n
\* tool_result frames.
C19_CounterAfterResult ==
  \A k \in 1..Len(log) :
    (log[k].kind = "frame" /\ log[k].event.type = "tokens") =>
      Cardinality({x \in FramePositions("tool_result") : x < k})
        >= log[k].event.toolCallCount

\* the answers the run's provider calls and tool executions came back with
Script == SelectSeq(log, IsEnd)
IsTraceEvent(ev) == ev.type = "trace"
\* the trace entries the stream carried
StreamTrace ==
  LET traces == SelectSeq(events, IsTraceEvent)
  IN [k \in 1..Len(traces) |-> traces[k].entry]
IsTokensEvent(ev) == ev.type = "tokens"
\* the trace array of a response; a response without one is read as empty
TraceOf(resp) == IF resp.trace.def THEN resp.trace.val ELSE <<>>

\* C20: when the stream of a run has ended, the non-streaming variant, given
\* the same provider and the same answers, responds with the stream's trace
\* entries in order, and - after a done frame - with the totals of the last
\* tokens frame and the flags of the done frame, or - after the error frame
\* of a failed provider call - with the error's details.
C20_VariantsAgree ==
  pc = "closed" =>
    LET ns == NonStreamingResponse(provider, Script)
        tokens == SelectSeq(events, IsTokensEvent)
        final == Last(events)
    IN IF final.type = "done"
         THEN /\ ns.kind = "result"
              /\ TraceOf(ns) = StreamTrace
              /\ ns.inputTokens = Last(tokens).inputTokens
              /\ ns.outputTokens = Last(tokens).outputTokens
              /\ ns.thinkingTokens = Last(tokens).thinkingTokens
              /\ ns.toolCallCount = Last(tokens).toolCallCount
              /\ ns.completed = final.completed
              /\ ns.needsUserInput = final.needsUserInput
         ELSE /\ ns.kind = "error"
              /\ ns.details = final.details
              /\ LogPositions("failure") # {} => TraceOf(ns) = StreamTrace

\* ------------------------------------------------------------------- C21
\* the positions of the provider invocations, in order
ProviderPositions == Ordered(LogPositions("provider"))
\* (text || "") + part.text over the non-thought text parts, part by part
RECURSIVE VisibleText(_)
VisibleText(parts) ==
  IF parts = <<>> THEN <<>>
  ELSE (IF Head(parts).kind = "text" /\ ~Head(parts).thought THEN Head(parts).text
                                                               ELSE <<>>)
       \o VisibleText(Tail(parts))
\* C21: Gemini continuation round trip. For every Gemini turn with tool calls
\* whose batch was pushed, the model message appended to the history is the
\* candidate's parts, all of them, verbatim and in order (thought parts and
\* parts that are neither text nor function call included); the text shown
\* to the user is the concatenation of the non-thought text parts only; and
\* the next provider call receives the history with that message unchanged.
C21_GeminiRoundTrip ==
  provider = "gemini" =>
    LET at == ProviderPositions IN
      /\ \A t \in LogPositions("turn") :
            LET shown == VisibleText(GeminiParts(log[t].vendor)) IN
              /\ shown # <<>> =>
                    /\ t + 2 <= Len(log)
                    /\ log[t + 2] = Frame(TextEvent(shown))
              /\ shown = <<>> =>
                    ~(t + 2 <= Len(log) /\ IsFrameOf(log[t + 2], "text"))
      /\ \A n \in 1..(Len(at) - 1) :
            LET before == log[at[n]].messages
                after == log[at[n + 1]].messages
                turn == log[at[n] + 1]
            IN
              /\ turn.kind = "turn"
              /\ Len(turn.names) > 0
              /\ Len(after) = Len(before) + 2
              /\ SubSeq(after, 1, Len(before)) = before
              /\ after[Len(before) + 1]
                   = [role |-> "model", parts |-> GeminiParts(turn.vendor)]
\* a Gemini turn with thought parts, a code part, text and tool calls was
\* pushed and the next provider call was made
C21_Witness ==
  /\ provider = "gemini"
  /\ \E n \in 1..(Len(ProviderPositions) - 1) :
       LET turn == log[ProviderPositions[n] + 1] IN
         /\ turn.vendor.lead = ThinkingLead
         /\ Truthy(turn.vendor.text)
         /\ Len(turn.names) > 0

\* ------------------------------------------------------------------- C22
\* the ids of the tool calls of message m of a provider-native history
CallIds(p, m) ==
  IF m.role # "assistant" THEN <<>>
  ELSE IF p = "anthropic"
    THEN LET uses == SelectSeq(m.content, IsAnthropicToolUse)
         IN [k \in 1..Len(uses) |-> uses[k].id]
  ELSE [k \in 1..Len(m.tool_calls) |-> m.tool_calls[k].id]
\* the ids of the tool results that answer the turn at position m: the
\* tool_result blocks of the next message (Anthropic), the tool messages that
\* follow (OpenAI)
ResultIds(p, msgs, m) ==
  IF p = "anthropic"
    THEN IF m + 1 <= Len(msgs) /\ msgs[m + 1].role = "user"
           THEN LET blocks == SelectSeq(msgs[m + 1].content,
                                        LAMBDA b : b.type = "tool_result")
                IN [k \in 1..Len(blocks) |-> blocks[k].tool_use_id]
         ELSE <<>>
  ELSE LET run == {k \in (m + 1)..Len(msgs) :
                     \A j \in (m + 1)..k : msgs[j].role = "tool"}
       IN [k \in 1..Cardinality(run) |-> msgs[m + k].tool_call_id]
\* every result of the turn carries the id of one of its calls, and every
\* call id has exactly one result
Correlated(calls, res) ==
  /\ \A k \in 1..Len(res) : \E c \in 1..Len(calls) : calls[c] = res[k]
  /\ \A c \in 1..Len(calls) : Cardinality({k \in 1..Len(res) : res[k] = calls[c]}) = 1
\* C22: id correlation. In every history handed to Anthropic or OpenAI, each
\* tool result carries the id of its originating call and each call id has
\* exactly one result with that id, for the turns of the loop and for the
\* caller's turns whose calls and results come without ids.
C22_IdCorrelation ==
  provider \in {"anthropic", "openai"} =>
    \A q \in LogPositions("provider") :
      LET msgs == log[q].messages IN
        \A m \in 1..Len(msgs) :
          LET calls == CallIds(provider, msgs[m]) IN
            calls # <<>> => Correlated(calls, ResultIds(provider, msgs, m))

\* ------------------------------------------------------------------- C23
\* C23: the session handle is read-only. Every request to the world executor
\* carries the taskId and the cookie of the run request, and no step of the
\* run changes the request's taskId or cookie.
C23_SessionReadOnly ==
  /\ [](\A x \in LogPositions("exec") :
          /\ log[x].task_id = request.taskId
          /\ log[x].cookie = request.cookie)
  /\ [][request' = request]_vars
\* a run on the second session has executed tools in two iterations
C23_Witness ==
  /\ request.taskId = OtherTaskId
  /\ \E x, y \in LogPositions("exec") :
       \E q \in LogPositions("provider") : x < q /\ q < y

\* ------------------------------------------------------------------- C24
\* the answers a run was given, in order
ScriptOf(entries) == SelectSeq(entries, IsEnd)
\* a run suspended in an await, or ended, is where its own request and its
\* own answers alone take it: history, totals, counter, flag and events
AsIfAlone(run) ==
  run.pc \in {"awaitProvider", "awaitTool", "closed"} =>
    LET alone == streamLoop(run.provider, ScriptOf(run.log),
                            StreamingStart(run.provider, run.request.history))
    IN /\ alone.pc = run.pc
       /\ alone.messages = run.messages
       /\ alone.inputTokens = run.inputTokens
       /\ alone.outputTokens = run.outputTokens
       /\ alone.thinkingTokens = run.thinkingTokens
       /\ alone.toolCallCount = run.toolCallCount
       /\ alone.completed = run.completed
       /\ alone.events = run.events
\* C24: two runs whose provider calls and tool executions interleave share
\* no mutable state: the history, the token totals, toolCallCount, completed
\* and the emitted events of each run are those of the run executed alone on
\* the same request and the same answers.
C24_RunsIsolated ==
  /\ AsIfAlone(RunLocals)
  /\ \A k \in 1..Len(suspended) : AsIfAlone(suspended[k])
\* both runs have counted tool calls, differently, and both have ended
C24_Witness ==
  /\ suspended # <<>>
  /\ pc = "closed" /\ suspended[1].pc = "closed"
  /\ toolCallCount > 0 /\ suspended[1].toolCallCount > 0
  /\ toolCallCount # suspended[1].toolCallCount
  /\ \E x \in LogPositions("exec") : log[x].task_id # suspended[1].request.taskId

\* ------------------------------------------------------------------- C25
\* the provider calls that came back, as turns or as failures
AnsweredPositions == LogPositions("turn") \cup LogPositions("failure")
\* the vendor answered with a turn that has no usage metadata
LacksUsage(v) == ~v.throws /\ v.candidate /\ ~v.usage.present
IsTokensFrame(entry) == entry.kind = "frame" /\ entry.event.type = "tokens"
TokenPositions == {k \in 1..Len(log) : IsTokensFrame(log[k])}
\* C25: a response without usage metadata counts as 0 input and 0 output
\* tokens in each adapter: the call comes back as a turn, not as a failure,
\* and the tokens frame after it repeats the totals reported before it.
C25_MissingUsageIsZero ==
  \A t \in AnsweredPositions :
    LacksUsage(log[t].vendor) =>
      LET r == callProvider(provider, log[t].vendor)
          earlier == {k \in TokenPositions : k < t}
      IN /\ log[t].kind = "turn"
         /\ ~r.threw
         /\ r.inputTokens = 0 /\ r.outputTokens = 0
         /\ t + 1 <= Len(log) /\ IsTokensFrame(log[t + 1])
         /\ log[t + 1].event.inputTokens
              = (IF earlier = {} THEN 0 ELSE log[Max(earlier)].event.inputTokens)
         /\ log[t + 1].event.outputTokens
              = (IF earlier = {} THEN 0 ELSE log[Max(earlier)].event.outputTokens)

\* ------------------------------------------------------------------- C26
\* a usage count, a missing one taken as 0
CountOf(usage, field) == IF usage.present THEN usage[field] ELSE 0
\* the totals of the last tokens frame before position t
TotalsBefore(t) ==
  LET earlier == {k \in TokenPositions : k < t}
  IN IF earlier = {} THEN TokensEvent(0, 0, 0, 0) ELSE log[Max(earlier)].event
\* C26: each Gemini call adds thoughtsTokenCount to the thinking total and
\* candidatesTokenCount - thoughtsTokenCount to the output total (missing
\* counts taken as 0), so the two additions sum to the vendor's candidate
\* count; for Anthropic and OpenAI thinkingTokens is 0 in every tokens frame
\* and in the summary of the non-streaming variant.
C26_ThinkingTokens ==
  /\ provider = "gemini" =>
       \A t \in LogPositions("turn") :
         LET candidates == CountOf(log[t].vendor.usage, "candidates")
             thoughts == CountOf(log[t].vendor.usage, "thoughts")
             before == TotalsBefore(t)
             after == log[t + 1].event
         IN /\ IsTokensFrame(log[t + 1])
            /\ after.thinkingTokens - before.thinkingTokens = thoughts
            /\ after.outputTokens - before.outputTokens = candidates - thoughts
            /\ (after.outputTokens - before.outputTokens)
               + (after.thinkingTokens - before.thinkingTokens) = candidates
  /\ provider \in {"anthropic", "openai"} =>
       /\ \A k \in TokenPositions : log[k].event.thinkingTokens = 0
       /\ pc = "closed" => NonStreamingResponse(provider, Script).thinkingTokens = 0
\* a Gemini call that reported more thought tokens than candidate tokens,
\* after an earlier call that reported thought tokens too
C26_Witness ==
  /\ provider = "gemini"
  /\ \E t \in LogPositions("turn") :
       /\ log[t].vendor.usage = ThinkingUsage
       /\ TotalsBefore(t).thinkingTokens > 0

\* ------------------------------------------------------------------- C27
\* C27: in every iteration the first event after the provider call returns
\* is a tokens event with the totals before the call plus what the adapter
\* reported for the call, ahead of the iteration's text, tool_call and done
\* events; and no tokens event restarts the totals: between two provider
\* calls the token totals of the tokens events stay as they are.
C27_TokensFirst ==
  /\ \A t \in LogPositions("turn") :
       LET r == callProvider(provider, log[t].vendor)
           before == TotalsBefore(t)
       IN /\ t + 1 <= Len(log)
          /\ log[t + 1]
               = Frame(TokensEvent(before.inputTokens + r.inputTokens,
                                   before.outputTokens + r.outputTokens,
                                   before.thinkingTokens + r.thinkingTokens,
                                   before.toolCallCount))
  /\ \A k \in TokenPositions :
       (k > 1 /\ log[k - 1].kind # "turn") =>
         LET before == TotalsBefore(k) IN
           /\ log[k].event.inputTokens = before.inputTokens
           /\ log[k].event.outputTokens = before.outputTokens
           /\ log[k].event.thinkingTokens = before.thinkingTokens
\* the second iteration of a run: its tokens event, then its text event, then
\* a tool_call event
C27_Witness ==
  \E t \in LogPositions("turn") :
    /\ TotalsBefore(t).inputTokens > 0
    /\ t + 3 <= Len(log)
    /\ IsTokensFrame(log[t + 1])
    /\ IsFrameOf(log[t + 2], "text")
    /\ IsFrameOf(log[t + 3], "tool_call")

\* ------------------------------------------------------------------- C28
\* every provider call of the script came back as a turn, whichever adapter
\* reads the vendor's answer
FedTurns(script) ==
  \A k \in 1..Len(script) :
    script[k].kind \in {"turn", "failure"} =>
      \A q \in Providers : ~callProvider(q, script[k].vendor).threw
\* an event without its token totals
WithoutTotals(ev) ==
  IF ev.type = "tokens" THEN [type |-> "tokens", toolCallCount |-> ev.toolCallCount]
  ELSE ev
EventsWithoutTotals(evs) == [k \in 1..Len(evs) |-> WithoutTotals(evs[k])]
FramesWithin(n) ==
  Cardinality({k \in 1..Len(stream) : Len(Body(SubSeq(stream, 1, k))) <= n})
\* C29: framing round trip. However the response body is cut into reads, the
\* page's reader loop has handled exactly the events whose frames it has
\* read in full, each once and in the order sent; when the stream has
\* ended it has handled every event sent and its buffer is empty.
C29_FramingRoundTrip ==
  client.phase \in {"reading", "finished"} =>
    LET delivered == Len(Body(stream)) - Len(wire) IN
      /\ client.handled = SubSeq(events, 1, FramesWithin(delivered))
      /\ client.phase = "finished" =>
           /\ client.handled = events
           /\ client.buffer = <<>>
\* the loop has handled two events and holds the first bytes of the next
\* frame in its buffer
C29_Witness ==
  /\ client.phase = "reading"
  /\ Len(client.handled) >= 2
  /\ client.buffer # <<>>
  /\ wire # <<>>

\* ------------------------------------------------------------------- C30
\* after handleStopAgent the request is aborted and the page is idle
StoppedState ==
  client.shouldStop =>
    /\ client.signal = "aborted"
    /\ ~client.isRunning
    /\ ~client.needsUserInput
\* while the page is stopped, a step that is not the start of a new run
\* applies nothing of the stopped request
StoppedStep ==
  (client.shouldStop /\ client'.run = client.run) =>
    /\ client'.trace = client.trace
    /\ client'.tokenUsage = client.tokenUsage
    /\ client'.handled = client.handled
    /\ ~client'.isRunning
    /\ ~client'.needsUserInput
\* C30: client stop. After handleStopAgent has run on a request in flight the
\* request is aborted, isRunning and needsUserInput are false, no trace
\* entry, token update, done or error event of that request is applied any
\* more, and isRunning stays false until a new run is started.
C30_StopIsFinal == [](StoppedState) /\ [][StoppedStep]_vars
\* the page was stopped in the middle of a response: events handled, bytes
\* still to come, and the rejected read has returned
C30_Witness ==
  /\ client.phase = "stopped"
  /\ client.shouldStop
  /\ client.handled # <<>>
  /\ wire # <<>>

\* ------------------------------------------------------------------- C31
DonePositions == {k \in 1..Len(log) : IsDoneFrame(log[k])}
\* the done frame at k was yielded on the no-tool-call branch: the turn
\* answered last before it carried no tool call
OnNoToolCallBranch(k) ==
  LET turns == {t \in LogPositions("turn") : t < k}
  IN turns # {} /\ Len(log[Max(turns)].names) = 0

\* C31: no done frame carries completed = true together with needsUserInput
\* = true; the done frame of the no-tool-call branch always carries
\* completed = false; and the non-streaming variant's result, on the same
\* answers, never has both flags set either.
C31_CompletedExcludesNeedsInput ==
  /\ \A k \in DonePositions :
       /\ ~(log[k].event.completed /\ log[k].event.needsUserInput)
       /\ OnNoToolCallBranch(k) => ~log[k].event.completed
  /\ LET ns == NonStreamingResponse(provider, Script)
     IN ns.kind = "result" => ~(ns.completed /\ ns.needsUserInput)

\* a run that went through a batch, was invoked again and ended on the
\* no-tool-call branch asking for input
C31_Witness ==
  /\ pc = "closed"
  /\ ProviderInvocations = 2
  /\ Cardinality(FramePositions("tool_result")) >= 1
  /\ Last(events) = DoneEvent(FALSE, TRUE)

\* ------------------------------------------------------------------- C32
ToolCallsEmitted == Cardinality(FramePositions("tool_call"))
ToolResultsEmitted == Cardinality(FramePositions("tool_result"))

\* C32: at every point of a run toolCallCount is the number of tool_call
\* frames emitted so far, and every tokens frame shows the number of
\* tool_call frames ahead of it; the number of tool_result frames is the
\* number of tool_call frames, or one less while (and only while) a tool
\* execution is in flight; after the done frame both counts equal
\* toolCallCount.
C32_CounterConsistency ==
  /\ toolCallCount = ToolCallsEmitted
  /\ \A k \in TokenPositions :
       log[k].event.toolCallCount
         = Cardinality({c \in FramePositions("tool_call") : c < k})
  /\ \/ ToolResultsEmitted = ToolCallsEmitted
     \/ ToolResultsEmitted = ToolCallsEmitted - 1 /\ pc = "awaitTool"
  /\ (events # <<>> /\ Last(events).type = "done") =>
       ToolCallsEmitted = toolCallCount /\ ToolResultsEmitted = toolCallCount

\* ------------------------------------------------------------------- C33
TurnPositions == Ordered(LogPositions("turn"))
\* the contents of the tool_result frames of iteration j, in order: the ones
\* between the j-th provider invocation and the next
IterationResults(j) ==
  LET between == Ordered({k \in FramePositions("tool_result") :
                            ProviderPositions[j] < k /\ k < ProviderPositions[j + 1]})
  IN [k \in 1..Len(between) |-> log[between[k]].event.entry.content]
\* what a completed iteration leaves in the history: one model/assistant
\* message, then the results of its calls
IterationMessages(p, j) ==
  LET r == callProvider(p, log[TurnPositions[j]].vendor)
      res == IterationResults(j)
  IN IF Len(res) # Len(r.toolCalls) THEN <<[role |-> "malformed"]>>
     ELSE IF p = "gemini"
       THEN <<[role |-> "model", parts |-> r.modelParts],
              [role |-> "user",
               parts |-> [k \in 1..Len(res) |->
                            createFunctionResponsePart(r.toolCalls[k].name, res[k])]]>>
     ELSE IF p = "anthropic"
       THEN <<[role |-> "assistant",
               content |-> createAssistantContent(r.text, r.toolCalls)],
              [role |-> "user",
               content |-> [k \in 1..Len(res) |->
                              createToolResultContent(r.toolCalls[k].id, res[k])]]>>
     ELSE <<createAssistantMessage(r.text, r.toolCalls)>>
          \o [k \in 1..Len(res) |-> createToolResultMessage(r.toolCalls[k].id, res[k])]
IsModelMessage(m) == m.role \in {"model", "assistant"}
\* the message carries tool results
CarriesResults(p, m) == MessageResults(p, m) # <<>>
\* every message of msgs after the first n that carries tool results comes
\* after a model/assistant message (OpenAI: or after another tool message)
ResultsFollowModel(p, msgs, n) ==
  \A k \in (n + 1)..Len(msgs) :
    CarriesResults(p, msgs[k]) =>
      /\ k > 1
      /\ \/ IsModelMessage(msgs[k - 1])
         \/ p = "openai" /\ k - 1 > n /\ msgs[k - 1].role = "tool"

\* C33: when the caller's history ends with a user turn, the history passed
\* at the n-th provider invocation is the converted initial history followed,
\* for each of the n - 1 completed iterations in order, by one
\* model/assistant message and the results of exactly that iteration's calls
\* (one user message for Gemini and Anthropic, one tool message per call for
\* OpenAI); its last message is not a model/assistant message, and no added
\* tool result lacks the model message before it.
C33_HistoryShape ==
  (log # <<>> /\ Last(request.history).role = "user") =>
    LET initial == ConvertHistory(provider, request.history) IN
      \A n \in 1..Len(ProviderPositions) :
        LET passed == log[ProviderPositions[n]].messages IN
          /\ passed = initial
                       \o Flatten([j \in 1..(n - 1) |-> IterationMessages(provider, j)])
          /\ ~IsModelMessage(Last(passed))
          /\ ResultsFollowModel(provider, passed, Len(initial))

\* a continuation request whose run is at its second provider invocation,
\* after a batch of two calls
C33_Witness ==
  /\ request.history = IdLessHistory
  /\ Len(ProviderPositions) = 2
  /\ Len(IterationResults(1)) = 2

\* ------------------------------------------------------------------- C34
\* a call named supervisor_complete_task was processed: its tool_call frame
\* was emitted
CompletionProcessed ==
  \E k \in FramePositions("tool_call") : log[k].event.entry.name = CompleteTool
EndsCompleted == Last(events).type = "done" /\ Last(events).completed

\* C34: the completed flag is set exactly when a call named
\* supervisor_complete_task has been processed, whatever the executions
\* returned, and a run ends with completed = true if and only if such a call
\* was processed in it.
C34_CompletedByNameOnly ==
  /\ completed <=> CompletionProcessed
  /\ pc = "closed" => (EndsCompleted <=> CompletionProcessed)

\* ------------------------------------------------------------------- C35
\* the header names the service: the name stands in it as one item of the
\* comma-separated list, with nothing but blanks around it
NamedInHeader(h, name) ==
  \E k \in 1..Len(h) :
    /\ h[k] = name
    /\ \A j \in 1..(k - 1) : (\A m \in j..(k - 1) : h[m] # ",") => h[j] = " "
    /\ \A j \in (k + 1)..Len(h) : (\A m \in (k + 1)..j : h[m] # ",") => h[j] = " "
\* the functions of the services the header names
FunctionsNamedBy(h) ==
  UNION {Range(services[k].functions) :
           k \in {n \in 1..Len(services) : NamedInHeader(h, services[n].name)}}

\* C35: for every x-enabled-services value, the empty and the unrecognised
\* ones included, the tool set declared at each provider invocation holds
\* the three supervisor tools, among them supervisor_complete_task, and
\* besides them exactly the functions of the services the value names, never
\* execute_python; and supervisor_complete_task is resolvable.
C35_ActiveToolSet ==
  \A q \in LogPositions("provider") :
    request.enabledServices.def =>
      LET declared == Range(log[q].functions) IN
        /\ Range(baseTools) \subseteq declared
        /\ CompleteTool \in declared
        /\ executePythonTool \notin declared
        /\ declared \ Range(baseTools) = FunctionsNamedBy(request.enabledServices.val)
        /\ getFunctionByName(CompleteTool) = CompleteTool

\* ------------------------------------------------------------------- C36
\* what a run produced, in order: the text, tool_call and tool_result
\* entries of its trace events
TranscriptOf(evs) ==
  LET tr == SelectSeq(evs, IsTraceEvent)
  IN [k \in 1..Len(tr) |-> [type |-> tr[k].entry.type, content |-> tr[k].entry.content]]
\* the model's turns and tool results a request's history carries, in order
MessageTranscript(msg) ==
  IF msg.role # "assistant" THEN <<>>
  ELSE (IF msg.content # <<>> THEN <<[type |-> "text", content |-> msg.content]>>
                              ELSE <<>>)
       \o (IF msg.toolCalls.def
             THEN [k \in 1..Len(msg.toolCalls.val) |->
                     [type |-> "tool_call",
                      content |-> <<msg.toolCalls.val[k].name, "(",
                                    msg.toolCalls.val[k].args, ")">>]]
           ELSE <<>>)
       \o (IF msg.toolResults.def
             THEN [k \in 1..Len(msg.toolResults.val) |->
                     [type |-> "tool_result", content |-> msg.toolResults.val[k].result]]
           ELSE <<>>)
SentTranscript(history) ==
  Flatten([k \in 1..Len(history) |-> MessageTranscript(history[k])])
\* the request in flight or ended last was sent by handleSendUserInput
IsContinuation == client.phase # "none" /\ client.earlier # <<>>

\* C36: the history a continuation request sends carries the model's turns
\* (text, tool calls) and the tool results of the runs before it, in order,
\* and ends with the new user message.
C36_ContinuationKeepsTranscript ==
  IsContinuation =>
    /\ Last(request.history) = UserMessage(UserReply)
    /\ SentTranscript(request.history) = TranscriptOf(client.earlier)

\* ------------------------------------------------------------------- C39
RequestInFlight == client.phase \in {"fetching", "reading"}

\* C39: the page has at most one chat request in flight: no request is
\* started while the reader loop of an earlier one still awaits its stream,
\* and while a request is in flight the stored abortController is the one of
\* that request (an ending request never clears a newer one's controller).
C39_OneRequestInFlight ==
  client.phase # "none" =>
    /\ client.stale = 0
    /\ (RequestInFlight /\ ~client.shouldStop) => client.abortController = "live"

\* ------------------------------------------------------------------- C37
\* C37: every tool call of a processed batch yields a tool_result frame. A
\* tool whose arguments cannot be rendered into code gets an error-string
\* tool_result like a failed execution and the run goes on: outside a tool
\* execution in flight every tool_call frame has its tool_result, an error
\* frame only ever follows a failed provider call, and the call after a
\* tool_result is processed.
C37_RenderFailureContained ==
  /\ pc # "awaitTool" => ToolResultsEmitted = ToolCallsEmitted
  /\ \A k \in 1..Len(log) :
       IsErrorFrame(log[k]) => (k > 1 /\ log[k - 1].kind = "failure")
  /\ \A t \in LogPositions("turn") :
       (pc = "closed" /\ \A q \in LogPositions("provider") : q < t) =>
         Cardinality({k \in FramePositions("tool_result") : k > t}) = Len(log[t].names)

\* ------------------------------------------------------------------- C38
AtAwait(where) == where \in {"awaitProvider", "awaitTool", "closed"}
\* the other run was given the same provider, the same history and the same
\* answers as the one that is stepping, and both are suspended or ended
SameInputs(other) ==
  /\ other.provider = provider
  /\ other.request.history = request.history
  /\ ScriptOf(other.log) = ScriptOf(log)
  /\ AtAwait(pc) /\ AtAwait(other.pc)

====
